---- MODULE Spec2Model ----
(***************************************************************************)
(* A model of the EMU raster container (ubarsc/emuformat): the dataset     *)
(* life cycle (Create, Close, destructor, Open, CreateCopy), the tile      *)
(* block engine (IWriteBlock, IReadBlock) and the raster attribute table   *)
(* (CreateColumn, SetRowCount, ValuesIO), over a byte-level model of the   *)
(* file.  Bytes are 0..255; u16/u32/u64 fields are little-endian.          *)
(***************************************************************************)
EXTENDS Integers, Sequences, FiniteSets, TLC

VARIABLES
    file,           \* the bytes of the one .emu file on disk
    alive,          \* an EMUDataset object exists
    m_fp,           \* EMUDataset::m_fp: NULL or the position of the open handle
    eAccess,        \* GDALDataset::eAccess of the object
    hdr,            \* m_eType, nRasterXSize, nRasterYSize, m_tileSize, m_bCloudOptimised
    bands,          \* the EMURasterBand objects, 1..nBands
    m_tileOffsets,  \* EMUDataset::m_tileOffsets
    submitted,      \* history: tile key -> the bytes last handed to IWriteBlock for
                    \* it and the number of writes of it
    ratLog,         \* history: <<band, column>> -> row -> value last written to it
    lastOp,         \* the last call: its name (op), arguments (obj, x, y, n), result
                    \* (err, msg), buffers before and after (pre, out), and
                    \* whether it took the mutex (lk)
    nOps,           \* number of block or table calls made on the current object
    m_mutex,        \* the thread that holds the mutex of the dataset, or NULL
    threads         \* per thread: where it is in its IWriteBlock call (pc), the
                    \* call's arguments and locals, and where its bytes went

vars == <<file, alive, m_fp, eAccess, hdr, bands, m_tileOffsets, submitted,
          ratLog, lastOp, nOps, m_mutex, threads>>

-----------------------------------------------------------------------------
(* Bounds of the model *)

\* stand-in for DFLT_TILESIZE (512 in src/src/emudataset.cpp:35): the nominal
\* tile edge of a created dataset, scaled down so that tiles are a few bytes
DFLT_TILESIZE == 2
\* calls of IWriteBlock / IReadBlock / ValuesIO on one dataset object
MaxOps == 2
\* block reads on one read-only object
MaxReads == 1
\* stand-in for MAX_RAT_CHUNK (65536 rows): rows per RAT chunk
MAX_RAT_CHUNK == 2
\* rows a RAT may be given by SetRowCount
MaxRows == 4
\* bands of a created dataset
MaxBands == 1
\* the block contents a caller hands to IWriteBlock: 1 is a constant block,
\* 2 a ramp
MaxPattern == 2
\* the largest count or size the footer parser follows; a larger one (only
\* met in a damaged footer) ends the parse without a dataset
ParseLimit == 200

-----------------------------------------------------------------------------
(* Bytes and little-endian fields *)

NULL == 0 - 1

\* stands for every unsigned value of 2^30 or more (beyond any offset, size or
\* count of the model)
HUGE == 64 * 16777216

Min(a, b) == IF a < b THEN a ELSE b

Take(s, n) == SubSeq(s, 1, Min(n, Len(s)))

Drop(s, n) == SubSeq(s, n + 1, Len(s))

Fill(n, b) == [i \in 1..n |-> b]

U16(v) == <<v % 256, (v \div 256) % 256>>

U32(v) == <<v % 256, (v \div 256) % 256, (v \div 65536) % 256, (v \div 16777216) % 256>>

U64(v) == U32(v) \o <<0, 0, 0, 0>>

GetU16(b) == b[1] + 256 * b[2]

GetU32(b) ==
    IF b[4] >= 64 THEN HUGE
    ELSE b[1] + 256 * b[2] + 65536 * b[3] + 16777216 * b[4]

GetU64(b) ==
    IF b[5] # 0 \/ b[6] # 0 \/ b[7] # 0 \/ b[8] # 0 THEN HUGE
    ELSE GetU32(b)

\* IEEE-754 doubles that the model uses, as their 8 bytes
\* a double is modelled by the integer it equals, or NaN
NaN == 0 - 1000
DoubleBytes(d) ==
    CASE d = NaN -> <<0, 0, 0, 0, 0, 0, 248, 127>>
      [] d = 0   -> <<0, 0, 0, 0, 0, 0, 0, 0>>
      [] d = 1   -> <<0, 0, 0, 0, 0, 0, 240, 63>>
      [] d = -1  -> <<0, 0, 0, 0, 0, 0, 240, 191>>
      [] d = 2   -> <<0, 0, 0, 0, 0, 0, 0, 64>>
      [] d = 3   -> <<0, 0, 0, 0, 0, 0, 8, 64>>
      [] d = 4   -> <<0, 0, 0, 0, 0, 0, 16, 64>>
      [] d = 5   -> <<0, 0, 0, 0, 0, 0, 20, 64>>
      [] d = 6   -> <<0, 0, 0, 0, 0, 0, 24, 64>>
      [] d = 7   -> <<0, 0, 0, 0, 0, 0, 28, 64>>
      [] d = 8   -> <<0, 0, 0, 0, 0, 0, 32, 64>>
      [] d = 9   -> <<0, 0, 0, 0, 0, 0, 34, 64>>
      [] OTHER   -> <<255, 255, 255, 255, 255, 255, 239, 127>>

Doubles == {NaN, 0, 1, -1, 2, 3, 4, 5, 6, 7, 8, 9}

\* the double a byte pattern denotes; OtherDouble for a pattern outside the table
OtherDouble == 0 - 2000
BytesDouble(b) ==
    IF \E d \in Doubles : DoubleBytes(d) = b
    THEN CHOOSE d \in Doubles : DoubleBytes(d) = b
    ELSE OtherDouble

-----------------------------------------------------------------------------
(* The file: VSIFWriteL / VSIFReadL at a position *)

\* VSIFWriteL of data at position pos: overwrites, extends, zero-fills a gap
WriteAt(f, pos, data) ==
    LET n == IF pos + Len(data) > Len(f) THEN pos + Len(data) ELSE Len(f)
    IN  [i \in 1..n |->
            IF i > pos /\ i <= pos + Len(data) THEN data[i - pos]
            ELSE IF i <= Len(f) THEN f[i] ELSE 0]

\* VSIFReadL of n bytes at pos into a buffer holding prior: a short read leaves
\* the rest of the buffer as it was
ReadAt(f, pos, n, prior) ==
    [i \in 1..n |-> IF pos + i <= Len(f) THEN f[pos + i] ELSE prior[i]]

-----------------------------------------------------------------------------
(* Codec (emucompress.cpp).  zlib itself is an external primitive; deflate  *)
(* is modelled by a lossless encoding whose length depends on the data: a  *)
(* two-byte header, then run-length pairs when that is shorter than the     *)
(* input and the input as it is otherwise.                                  *)

COMPRESSION_NONE == 0
COMPRESSION_ZLIB == 1

\* the slack every caller adds to the input size for the output buffer
COMPRESS_SLACK == 100

ZMAGIC == 120

\* the indices at which a run of equal bytes starts
RunStarts(b) == {i \in 1..Len(b) : i = 1 \/ b[i] # b[i - 1]}

\* the run-length pairs <<length, byte>> of b, in order
Rle(b) ==
    LET S == RunStarts(b)
        k == Cardinality(S)
        st == [r \in 1..k |-> CHOOSE i \in S : Cardinality({j \in S : j <= i}) = r]
    IN  [p \in 1..(2 * k) |->
            LET r == (p + 1) \div 2
            IN  IF p % 2 = 1
                THEN (IF r < k THEN st[r + 1] ELSE Len(b) + 1) - st[r]
                ELSE b[st[r]]]

RECURSIVE UnRle(_, _)
UnRle(r, i) ==
    IF i + 1 > Len(r) THEN <<>>
    ELSE Fill(r[i], r[i + 1]) \o UnRle(r, i + 2)

\* deflate(Z_FINISH) of a whole input
Deflate(b) ==
    IF 2 * Cardinality(RunStarts(b)) < Len(b)
    THEN <<ZMAGIC, 1>> \o Rle(b)
    ELSE <<ZMAGIC, 0>> \o b

\* everything inflate can decode from a stream (nothing from a bad header)
InflateAll(s) ==
    IF Len(s) < 2 \/ s[1] # ZMAGIC THEN <<>>
    ELSE IF s[2] = 0 THEN Drop(s, 2)
    ELSE IF s[2] = 1 THEN UnRle(s, 3)
    ELSE <<>>

\* doCompression: the bytes written through the returned pointer, *pnOutputSize
\* of them; avail_out = capacity cuts the stream short
doCompression(type, pInput, capacity) ==
    IF type = COMPRESSION_NONE THEN pInput
    ELSE IF type = COMPRESSION_ZLIB THEN Take(Deflate(pInput), capacity)
    ELSE <<>>

\* doUncompression into pOutput (the buffer's prior content, nOutputSize bytes):
\* inflate stops at avail_out; bytes it does not reach keep their prior content
doUncompression(type, pInput, pOutput) ==
    LET got == IF type = COMPRESSION_NONE THEN Take(pInput, Len(pOutput))
               ELSE IF type = COMPRESSION_ZLIB THEN Take(InflateAll(pInput), Len(pOutput))
               ELSE <<>>
    IN  [i \in 1..Len(pOutput) |-> IF i <= Len(got) THEN got[i] ELSE pOutput[i]]

-----------------------------------------------------------------------------
(* Strings are sequences of character codes; a string list (CSL) is a       *)
(* sequence of "KEY=VALUE" strings.                                         *)

\* the string literals of the code
Str ==
    [LAYER_TYPE |-> <<76, 65, 89, 69, 82, 95, 84, 89, 80, 69>>,
     thematic |-> <<116, 104, 101, 109, 97, 116, 105, 99>>,
     athematic |-> <<97, 116, 104, 101, 109, 97, 116, 105, 99>>,
     STATISTICS_MINIMUM |-> <<83, 84, 65, 84, 73, 83, 84, 73, 67, 83, 95, 77, 73, 78, 73, 77, 85, 77>>,
     STATISTICS_MAXIMUM |-> <<83, 84, 65, 84, 73, 83, 84, 73, 67, 83, 95, 77, 65, 88, 73, 77, 85, 77>>,
     STATISTICS_MEAN |-> <<83, 84, 65, 84, 73, 83, 84, 73, 67, 83, 95, 77, 69, 65, 78>>,
     STATISTICS_STDDEV |-> <<83, 84, 65, 84, 73, 83, 84, 73, 67, 83, 95, 83, 84, 68, 68, 69, 86>>,
     STATISTICS_MEDIAN |-> <<83, 84, 65, 84, 73, 83, 84, 73, 67, 83, 95, 77, 69, 68, 73, 65, 78>>,
     STATISTICS_MODE |-> <<83, 84, 65, 84, 73, 83, 84, 73, 67, 83, 95, 77, 79, 68, 69>>,
     STATISTICS_SKIPFACTORX |-> <<83, 84, 65, 84, 73, 83, 84, 73, 67, 83, 95, 83, 75, 73, 80, 70, 65, 67, 84, 79, 82, 88>>,
     STATISTICS_SKIPFACTORY |-> <<83, 84, 65, 84, 73, 83, 84, 73, 67, 83, 95, 83, 75, 73, 80, 70, 65, 67, 84, 79, 82, 89>>,
     CLOUD_OPTIMISED |-> <<67, 76, 79, 85, 68, 95, 79, 80, 84, 73, 77, 73, 83, 69, 68>>,
     TRUE_STR |-> <<84, 82, 85, 69>>,
     FALSE_STR |-> <<70, 65, 76, 83, 69>>,
     nan |-> <<110, 97, 110>>,
     EMU |-> <<69, 77, 85>>,
     HDR |-> <<72, 68, 82>>]

CH_EQUALS == 61
CH_ZERO == 48

\* Printf("%f", d) for the doubles of the model
PrintfF(d) ==
    IF d = NaN THEN Str.nan
    ELSE IF d < 0 THEN <<45, CH_ZERO - d, 46>> \o Fill(6, CH_ZERO)
    ELSE <<CH_ZERO + d, 46>> \o Fill(6, CH_ZERO)

\* index of the first '=' of a string, 0 when it has none (strchr)
EqualsAt(str, i) ==
    LET S == {j \in i..Len(str) : str[j] = CH_EQUALS}
    IN  IF S = {} THEN 0 ELSE CHOOSE j \in S : \A k \in S : j <= k

KeyOf(str) == Take(str, EqualsAt(str, 1) - 1)

ValueOf(str) == Drop(str, EqualsAt(str, 1))

\* toupper of a character code
ToUpper(c) == IF c >= 97 /\ c <= 122 THEN c - 32 ELSE c

\* an entry of a list is "name=..." or "name:...", the name compared without
\* regard to case (EQUALN): the test of CSLFindName and CSLSetNameValue
HasName(str, name) ==
    /\ Len(str) > Len(name)
    /\ str[Len(name) + 1] \in {CH_EQUALS, 58}
    /\ \A i \in 1..Len(name) : ToUpper(str[i]) = ToUpper(name[i])

\* index of the first entry of a list whose key is name, 0 when there is none
CSLFind(list, name) ==
    LET S == {i \in 1..Len(list) : HasName(list[i], name)}
    IN  IF S = {} THEN 0 ELSE CHOOSE i \in S : \A k \in S : i <= k

\* CSLSetNameValue: the first entry of that name is rewritten with the name
\* and value given and the separator it had; without one, "name=value" is added
CSLSetNameValue(list, name, value) ==
    LET i == CSLFind(list, name)
    IN  IF i = 0 THEN Append(list, name \o <<CH_EQUALS>> \o value)
        ELSE [list EXCEPT ![i] = name \o <<list[i][Len(name) + 1]>> \o value]

\* CSLFetchNameValue: <<TRUE, value>> or <<FALSE, <<>>>> for nullptr
CSLFetchNameValue(list, name) ==
    LET i == CSLFind(list, name)
    IN  IF i = 0 THEN <<FALSE, <<>>>> ELSE <<TRUE, Drop(list[i], Len(name) + 1)>>

specialKeys ==
    {Str.STATISTICS_MINIMUM, Str.STATISTICS_MAXIMUM, Str.STATISTICS_MEAN, Str.STATISTICS_STDDEV,
     Str.CLOUD_OPTIMISED}

isSpecialKey(psz) == EqualsAt(psz, 1) > 0 /\ KeyOf(psz) \in specialKeys

\* the strings doCompressMetadata keeps, each followed by its NUL
RECURSIVE PackStrings(_, _)
PackStrings(list, i) ==
    IF i > Len(list) THEN <<>>
    ELSE (IF isSpecialKey(list[i]) THEN <<>> ELSE list[i] \o <<0>>)
         \o PackStrings(list, i + 1)

\* doCompressMetadata: [nInputSize, out] with out the compressed bytes
\* (nOutputSize of them); nInputSize = 0 and no bytes when nothing is kept
doCompressMetadata(type, papszMetadataList) ==
    LET packed == PackStrings(papszMetadataList, 1)
    IN  IF Len(packed) = 0 THEN [nInputSize |-> 0, out |-> <<>>]
        ELSE [nInputSize |-> Len(packed) + 1,
              out |-> doCompression(type, packed \o <<0>>,
                                    Len(packed) + 1 + COMPRESS_SLACK)]

\* index of the first NUL of a buffer at or after i (strlen); past the end of
\* the buffer when there is none
NulAt(buf, i) ==
    LET S == {j \in i..Len(buf) : buf[j] = 0}
    IN  IF S = {} THEN Len(buf) + 1 ELSE CHOOSE j \in S : \A k \in S : j <= k

\* the loop of doUncompressMetadata over the decompressed buffer
RECURSIVE SplitStrings(_, _, _)
SplitStrings(buf, pos, acc) ==
    IF pos > Len(buf) \/ buf[pos] = 0 THEN acc
    ELSE LET nul == NulAt(buf, pos)
             str == SubSeq(buf, pos, nul - 1)
         IN  SplitStrings(buf, nul + 1,
                 IF EqualsAt(str, 1) > 0
                 THEN CSLSetNameValue(acc, KeyOf(str), ValueOf(str))
                 ELSE acc)

doUncompressMetadata(type, pInput, nOutputSize) ==
    SplitStrings(doUncompression(type, pInput, Fill(nOutputSize, 0)), 1, <<>>)

-----------------------------------------------------------------------------
(* Bands, overviews and attribute tables in memory *)

GA_ReadOnly == 0
GA_Update == 1

CE_None == 0
CE_Failure == 3

GDT_Byte == 1
GDT_UInt16 == 2

GFT_Integer == 0
GFT_Real == 1
GFT_String == 2

\* GDALGetDataTypeSize(eDataType) / 8
typeSizeOf(eType) == IF eType = GDT_UInt16 THEN 2 ELSE 1

\* EMURat::EMURat
NewRat == [m_cols |-> <<>>, m_nRowCount |-> 0]

\* EMURasterBand::UpdateMetadataList
UpdateMetadataList(b) ==
    LET l1 == CSLSetNameValue(b.m_papszMetadataList, Str.LAYER_TYPE,
                  IF b.m_bThematic THEN Str.thematic ELSE Str.athematic)
        l2 == CSLSetNameValue(l1, Str.STATISTICS_MINIMUM, PrintfF(b.m_dMin))
        l3 == CSLSetNameValue(l2, Str.STATISTICS_MAXIMUM, PrintfF(b.m_dMax))
        l4 == CSLSetNameValue(l3, Str.STATISTICS_MEAN, PrintfF(b.m_dMean))
        l5 == CSLSetNameValue(l4, Str.STATISTICS_MEDIAN, PrintfF(b.m_dMedian))
        l6 == CSLSetNameValue(l5, Str.STATISTICS_STDDEV, PrintfF(b.m_dStdDev))
        l7 == CSLSetNameValue(l6, Str.STATISTICS_MODE, PrintfF(b.m_dMode))
        l8 == CSLSetNameValue(l7, Str.STATISTICS_SKIPFACTORX, <<CH_ZERO + 1>>)
        l9 == CSLSetNameValue(l8, Str.STATISTICS_SKIPFACTORY, <<CH_ZERO + 1>>)
    IN  [b EXCEPT !.m_papszMetadataList = l9]

\* EMURasterBand::EMURasterBand, with the block size its callers pass
NewBand(nBandIn, nBlockSize) ==
    UpdateMetadataList(
        [nBand |-> nBandIn, nBlockXSize |-> nBlockSize,
         m_bNoDataSet |-> FALSE, m_nNoData |-> 0, m_bThematic |-> FALSE,
         m_dMin |-> NaN, m_dMax |-> NaN, m_dMean |-> NaN, m_dStdDev |-> NaN,
         m_dMedian |-> NaN, m_dMode |-> NaN,
         m_papszMetadataList |-> <<>>,
         ovSet |-> FALSE, ovs |-> <<>>,
         m_rat |-> NewRat])

\* EMUDataset::UpdateMetadataList
DatasetUpdateMetadataList(list, bCloudOptimised) ==
    CSLSetNameValue(list, Str.CLOUD_OPTIMISED, IF bCloudOptimised THEN Str.TRUE_STR ELSE Str.FALSE_STR)

\* EMUDataset::EMUDataset: the fields of the dataset object
NewDataset(eType, nXSize, nYSize, bCloudOptimised, nTileSize) ==
    [m_eType |-> eType, nRasterXSize |-> nXSize, nRasterYSize |-> nYSize,
     m_bCloudOptimised |-> bCloudOptimised, m_tileSize |-> nTileSize,
     m_papszMetadataList |-> DatasetUpdateMetadataList(<<>>, bCloudOptimised)]

\* A band object that block I/O is called on: band b itself (level 0) or its
\* overview number level (1-based)
BandObjs(bs) == UNION {{<<b, l>> : l \in 0..Len(bs[b].ovs)} : b \in 1..Len(bs)}

\* the overview level a band object keys its tiles with (EMUBaseBand::m_nLevel):
\* 0 for the band itself, k for its k-th overview
LevelOf(o) == o[2]

\* nRasterXSize, nRasterYSize, nBlockXSize of a band object
ObjXSize(h, bs, o) == IF o[2] = 0 THEN h.nRasterXSize ELSE bs[o[1]].ovs[o[2]].xSize
ObjYSize(h, bs, o) == IF o[2] = 0 THEN h.nRasterYSize ELSE bs[o[1]].ovs[o[2]].ySize
ObjBlockSize(h, bs, o) == IF o[2] = 0 THEN bs[o[1]].nBlockXSize ELSE bs[o[1]].ovs[o[2]].tileSize

\* number of blocks along an axis of size n with blocks of size bsz
BlocksAlong(n, bsz) == (n + bsz - 1) \div bsz

\* GDALRasterBand::GetActualBlockSize along one axis
ValidAlong(n, bsz, off) == Min(bsz, n - off * bsz)

-----------------------------------------------------------------------------
(* The footer: what Close writes (emudataset.cpp, emurat.cpp) *)

RECURSIVE Concat(_, _)
Concat(seqs, i) == IF i > Len(seqs) THEN <<>> ELSE seqs[i] \o Concat(seqs, i + 1)

\* std::sort with chunkSortFunction (by startIdx; an insertion sort, which is
\* what std::sort runs on the short lists of the model)
RECURSIVE InsertChunk(_, _)
InsertChunk(sorted, c) ==
    IF sorted = <<>> THEN <<c>>
    ELSE IF c.startIdx < sorted[Len(sorted)].startIdx
         THEN Append(InsertChunk(SubSeq(sorted, 1, Len(sorted) - 1), c), sorted[Len(sorted)])
         ELSE Append(sorted, c)

RECURSIVE SortChunks(_, _)
SortChunks(chunks, i) ==
    IF i = 0 THEN <<>> ELSE InsertChunk(SortChunks(chunks, i - 1), chunks[i])

\* the state of the table after WriteIndex: every column's chunks sorted
SortedRat(rat) ==
    [rat EXCEPT !.m_cols =
        [i \in 1..Len(rat.m_cols) |->
            [rat.m_cols[i] EXCEPT !.chunks = SortChunks(@, Len(@))]]]

ChunkBytes(c) ==
    U64(c.startIdx) \o U64(c.length) \o U64(c.offset) \o U64(c.compressedSize)

ColumnBytes(col) ==
    U64(col.colType) \o col.sName \o <<0>> \o U64(Len(col.chunks))
    \o Concat([n \in 1..Len(col.chunks) |-> ChunkBytes(col.chunks[n])], 1)

\* EMURat::WriteIndex: the bytes it writes (of the sorted table)
WriteIndex(rat) ==
    LET r == SortedRat(rat)
    IN  U64(Len(r.m_cols)) \o U64(r.m_nRowCount)
        \o Concat([i \in 1..Len(r.m_cols) |-> ColumnBytes(r.m_cols[i])], 1)

\* (inputSize, outputSize, bytes) of a metadata list, as Close writes it
MetadataBytes(list) ==
    LET c == doCompressMetadata(COMPRESSION_ZLIB, list)
    IN  U64(c.nInputSize) \o
        (IF c.nInputSize > 0 THEN U64(Len(c.out)) \o c.out ELSE <<>>)

OverviewBytes(ov) == U64(ov.xSize) \o U64(ov.ySize) \o U16(ov.tileSize % 65536)

\* what Close writes for one band
BandBytes(b) ==
    <<IF b.m_bNoDataSet THEN 1 ELSE 0>> \o U64(b.m_nNoData)
    \o DoubleBytes(b.m_dMin) \o DoubleBytes(b.m_dMax)
    \o DoubleBytes(b.m_dMean) \o DoubleBytes(b.m_dStdDev)
    \o U32(Len(b.ovs))
    \o Concat([n \in 1..Len(b.ovs) |-> OverviewBytes(b.ovs[n])], 1)
    \o WriteIndex(b.m_rat)
    \o MetadataBytes(b.m_papszMetadataList)

\* the order in which Close walks m_tileOffsets: an unordered_map's iteration
\* order is fixed for one run but unspecified; the model walks by offset, then key
RECURSIVE TileOrder(_, _)
TileOrder(m, keys) ==
    IF keys = {} THEN <<>>
    ELSE LET k == CHOOSE k \in keys : \A j \in keys :
                     \/ m[k].offset < m[j].offset
                     \/ /\ m[k].offset = m[j].offset
                        /\ \/ k[1] < j[1]
                           \/ k[1] = j[1] /\ k[2] < j[2]
                           \/ k[1] = j[1] /\ k[2] = j[2] /\ k[3] < j[3]
                           \/ k[1] = j[1] /\ k[2] = j[2] /\ k[3] = j[3] /\ k[4] <= j[4]
         IN  <<k>> \o TileOrder(m, keys \ {k})

TileEntryBytes(m, k) ==
    U64(m[k].offset) \o U64(m[k].size) \o U64(m[k].uncompressedSize)
    \o U64(k[1]) \o U64(k[2]) \o U64(k[3]) \o U64(k[4])

\* m_padfTransform as the constructor leaves it: 0, 1, 0, 0, 0, -1
GeoTransformBytes ==
    DoubleBytes(0) \o DoubleBytes(1) \o DoubleBytes(0)
    \o DoubleBytes(0) \o DoubleBytes(0) \o DoubleBytes(-1)

\* a footer whose tile index is written empty
FooterBytesNoTiles(headerOffset, h, bs, tiles) ==
    Str.HDR \o <<0>>
    \o U64(h.m_eType) \o U64(Len(bs))
    \o U64(h.nRasterXSize) \o U64(h.nRasterYSize) \o U32(h.m_tileSize)
    \o Concat([n \in 1..Len(bs) |-> BandBytes(bs[n])], 1)
    \o GeoTransformBytes
    \o U64(1) \o <<0>>
    \o MetadataBytes(h.m_papszMetadataList)
    \o U64(0)
    \o U64(headerOffset)

\* everything Close writes from "HDR" to the trailing header offset
FooterBytes(headerOffset, h, bs, tiles) ==
    LET order == TileOrder(tiles, DOMAIN tiles)
    IN  Str.HDR \o <<0>>
        \o U64(h.m_eType) \o U64(Len(bs))
        \o U64(h.nRasterXSize) \o U64(h.nRasterYSize) \o U32(h.m_tileSize)
        \o Concat([n \in 1..Len(bs) |-> BandBytes(bs[n])], 1)
        \o GeoTransformBytes
        \o U64(1) \o <<0>>
        \o MetadataBytes(h.m_papszMetadataList)
        \o U64(Len(order))
        \o Concat([n \in 1..Len(order) |-> TileEntryBytes(tiles, order[n])], 1)
        \o U64(headerOffset)

-----------------------------------------------------------------------------
(* Reading the footer back: EMUDataset::Open, EMURat::ReadIndex *)

\* the file position after a VSIFReadL of n bytes at pos
Advance(f, pos, n) == IF pos >= Len(f) THEN pos ELSE Min(pos + n, Len(f))

\* a variable of n bytes read at pos; g fills what the read did not deliver
RdU64(f, pos, g) == GetU64(ReadAt(f, pos, 8, Fill(8, g)))
RdU16(f, pos, g) == GetU16(ReadAt(f, pos, 2, Fill(2, g)))

\* the name loop of ReadIndex: bytes up to a NUL; bad when it never ends
RECURSIVE ReadName(_, _, _, _)
ReadName(f, pos, g, acc) ==
    IF pos >= Len(f) THEN [pos |-> pos, sName |-> acc, bad |-> g # 0]
    ELSE IF f[pos + 1] = 0 THEN [pos |-> pos + 1, sName |-> acc, bad |-> FALSE]
    ELSE ReadName(f, pos + 1, g, Append(acc, f[pos + 1]))

RECURSIVE ReadChunks(_, _, _, _, _)
ReadChunks(f, pos, n, g, acc) ==
    IF n = 0 THEN [pos |-> pos, chunks |-> acc]
    ELSE LET p1 == Advance(f, pos, 8)
             p2 == Advance(f, p1, 8)
             p3 == Advance(f, p2, 8)
         IN  ReadChunks(f, Advance(f, p3, 8), n - 1, g,
                 Append(acc, [startIdx |-> RdU64(f, pos, g),
                              length |-> RdU64(f, p1, g),
                              offset |-> RdU64(f, p2, g),
                              compressedSize |-> RdU64(f, p3, g)]))

RECURSIVE ReadColumns(_, _, _, _, _)
ReadColumns(f, pos, n, g, acc) ==
    IF n = 0 THEN [pos |-> pos, m_cols |-> acc, bad |-> FALSE]
    ELSE LET nType == RdU64(f, pos, g)
             nm == ReadName(f, Advance(f, pos, 8), g, <<>>)
             nChunks == RdU64(f, nm.pos, g)
             ch == ReadChunks(f, Advance(f, nm.pos, 8), nChunks, g, <<>>)
         IN  IF nm.bad \/ nChunks > ParseLimit
             THEN [pos |-> pos, m_cols |-> acc, bad |-> TRUE]
             ELSE ReadColumns(f, ch.pos, n - 1, g,
                      Append(acc, [sName |-> nm.sName, colType |-> nType,
                                   chunks |-> ch.chunks]))

\* EMURat::ReadIndex
ReadIndex(f, pos, g) ==
    LET nCols == RdU64(f, pos, g)
        p1 == Advance(f, pos, 8)
        nRows == RdU64(f, p1, g)
        cols == IF nCols > ParseLimit
                THEN [pos |-> p1, m_cols |-> <<>>, bad |-> TRUE]
                ELSE ReadColumns(f, Advance(f, p1, 8), nCols, g, <<>>)
    IN  [pos |-> cols.pos, bad |-> cols.bad,
         m_rat |-> [m_cols |-> cols.m_cols, m_nRowCount |-> nRows]]

\* a metadata block as Open reads it: the first size is taken as the size of
\* the uncompressed buffer, the second as the number of bytes to read
ReadMetadata(f, pos, g) ==
    LET nOutputSize == RdU64(f, pos, g)
        p1 == Advance(f, pos, 8)
        nInputSize == RdU64(f, p1, g)
        p2 == Advance(f, p1, 8)
    IN  IF nOutputSize = 0 THEN [pos |-> p1, present |-> FALSE, list |-> <<>>, bad |-> FALSE]
        ELSE IF nOutputSize > ParseLimit \/ nInputSize > ParseLimit
        THEN [pos |-> p2, present |-> FALSE, list |-> <<>>, bad |-> TRUE]
        ELSE [pos |-> Advance(f, p2, nInputSize), present |-> TRUE, bad |-> FALSE,
              list |-> doUncompressMetadata(COMPRESSION_ZLIB,
                           ReadAt(f, p2, nInputSize, Fill(nInputSize, g)),
                           nOutputSize)]

\* EMURasterBand::SetMetadata: only LAYER_TYPE is looked at
RECURSIVE SetMetadata(_, _, _)
SetMetadata(b, list, i) ==
    IF i > Len(list) THEN UpdateMetadataList(b)
    ELSE SetMetadata(
             IF EqualsAt(list[i], 1) > 0 /\ KeyOf(list[i]) = Str.LAYER_TYPE
             THEN [b EXCEPT !.m_bThematic = (ValueOf(list[i]) # Str.athematic)]
             ELSE b,
             list, i + 1)

\* the u64 / u32 / f64 field that starts at byte i of a block of bytes read
U64At(b, i) == GetU64(SubSeq(b, i, i + 7))
U32At(b, i) == GetU32(SubSeq(b, i, i + 3))
F64At(b, i) == BytesDouble(SubSeq(b, i, i + 7))

\* the overview descriptors of one band in Open: 8 + 8 + 2 bytes each
RECURSIVE ReadOverviews(_, _, _, _, _)
ReadOverviews(f, pos, n, g, acc) ==
    IF n = 0 THEN [pos |-> pos, sizes |-> acc]
    ELSE ReadOverviews(f, Advance(f, pos, 18), n - 1, g,
             Append(acc, [xSize |-> RdU64(f, pos, g),
                          ySize |-> RdU64(f, Advance(f, pos, 8), g),
                          tileSize |-> RdU16(f, Advance(f, pos, 16), g)]))

\* EMURasterBand::CreateOverviews(sizes): one overview band per triple
CreateOverviewsFromSizes(b, sizes) == [b EXCEPT !.ovs = sizes, !.ovSet = TRUE]

\* the band Open builds from the 45 bytes that start a band's part of the
\* footer: no-data flag and value, min, max, mean, stddev (overview count last)
BandFromFixed(n, ntilesize, fixed) ==
    [NewBand(n, ntilesize) EXCEPT
        !.m_bNoDataSet = (fixed[1] # 0),
        !.m_nNoData = IF fixed[1] # 0 THEN U64At(fixed, 2) ELSE 0,
        !.m_dMin = F64At(fixed, 10), !.m_dMax = F64At(fixed, 18),
        !.m_dMean = F64At(fixed, 26), !.m_dStdDev = F64At(fixed, 34)]

\* the band once its overviews, table and metadata are read
FinishBand(b, sizes, rat, md) ==
    IF md.present
    THEN UpdateMetadataList(
             SetMetadata([CreateOverviewsFromSizes(b, sizes) EXCEPT !.m_rat = rat],
                         md.list, 1))
    ELSE [CreateOverviewsFromSizes(b, sizes) EXCEPT !.m_rat = rat]

\* the band loop of Open, one operator per read that the next one depends on
RECURSIVE ReadBands(_, _, _, _, _, _, _)
RECURSIVE ReadBandOverviews(_, _, _, _, _, _, _, _)
RECURSIVE ReadBandRat(_, _, _, _, _, _, _, _)
RECURSIVE ReadBandMetadata(_, _, _, _, _, _, _, _, _)
RECURSIVE ReadBandDone(_, _, _, _, _, _, _, _, _, _)

ReadBands(f, pos, n, bandcount, ntilesize, g, acc) ==
    IF n > bandcount THEN [pos |-> pos, bands |-> acc, bad |-> FALSE]
    ELSE ReadBandOverviews(f, Advance(f, pos, 45), n, bandcount, ntilesize, g, acc,
                           ReadAt(f, pos, 45, Fill(45, g)))

ReadBandOverviews(f, pos, n, bandcount, ntilesize, g, acc, fixed) ==
    IF U32At(fixed, 42) > ParseLimit THEN [pos |-> pos, bands |-> acc, bad |-> TRUE]
    ELSE ReadBandRat(f, n, bandcount, ntilesize, g, acc, fixed,
                     ReadOverviews(f, pos, U32At(fixed, 42), g, <<>>))

ReadBandRat(f, n, bandcount, ntilesize, g, acc, fixed, ov) ==
    ReadBandMetadata(f, n, bandcount, ntilesize, g, acc, fixed, ov,
                     ReadIndex(f, ov.pos, g))

ReadBandMetadata(f, n, bandcount, ntilesize, g, acc, fixed, ov, rat) ==
    IF rat.bad THEN [pos |-> rat.pos, bands |-> acc, bad |-> TRUE]
    ELSE ReadBandDone(f, n, bandcount, ntilesize, g, acc, fixed, ov, rat,
                      ReadMetadata(f, rat.pos, g))

ReadBandDone(f, n, bandcount, ntilesize, g, acc, fixed, ov, rat, md) ==
    IF md.bad THEN [pos |-> md.pos, bands |-> acc, bad |-> TRUE]
    ELSE ReadBands(f, md.pos, n + 1, bandcount, ntilesize, g,
                   Append(acc, FinishBand(BandFromFixed(n, ntilesize, fixed),
                                          ov.sizes, rat.m_rat, md)))

\* setTileOffset storing with operator[] instead of insert: a second write of
\* a key replaces its entry
setTileOffsetOverwrite(m, o, band, x, y, offset, size, uncompressedSize) ==
    [k \in DOMAIN m \cup {<<o, band, x, y>>} |->
        IF k = <<o, band, x, y>>
        THEN [offset |-> offset, size |-> size, uncompressedSize |-> uncompressedSize]
        ELSE m[k]]

\* EMUDataset::setTileOffset: unordered_map::insert keeps an entry already there
setTileOffset(m, o, band, x, y, offset, size, uncompressedSize) ==
    IF <<o, band, x, y>> \in DOMAIN m THEN m
    ELSE m @@ (<<o, band, x, y>> :>
               [offset |-> offset, size |-> size, uncompressedSize |-> uncompressedSize])

\* one 56-byte tile entry of the footer added to the map
AddTileEntry(m, e) ==
    setTileOffset(m, U64At(e, 25), U64At(e, 33), U64At(e, 41), U64At(e, 49),
                  U64At(e, 1), U64At(e, 9), U64At(e, 17))

\* the tile loop of Open
RECURSIVE ReadTiles(_, _, _, _, _)
ReadTiles(f, pos, n, g, m) ==
    IF n = 0 THEN m
    ELSE ReadTiles(f, Advance(f, pos, 56), n - 1, g,
                   AddTileEntry(m, ReadAt(f, pos, 56, Fill(56, g))))

\* EMUDataset::SetMetadata: every item but CLOUD_OPTIMISED is stored
RECURSIVE DatasetSetMetadata(_, _, _)
DatasetSetMetadata(list, papszMetadata, i) ==
    IF i > Len(papszMetadata) THEN list
    ELSE DatasetSetMetadata(
             IF EqualsAt(papszMetadata[i], 1) > 0 /\ KeyOf(papszMetadata[i]) # Str.CLOUD_OPTIMISED
             THEN CSLSetNameValue(list, KeyOf(papszMetadata[i]), ValueOf(papszMetadata[i]))
             ELSE list,
             papszMetadata, i + 1)

\* Open returning nullptr; why names the CPLError class it raised ("" for none)
NoDataset(why) ==
    [ok |-> FALSE, why |-> why, pos |-> 0, hdr |-> <<>>, bands |-> <<>>, tiles |-> <<>>]

EmptyTiles == [k \in {} |-> 0]

\* EMUDataset::Identify (the file name has the extension)
Identify(f) == Len(f) >= 3 /\ Take(f, 3) = Str.EMU

\* the last part of Open: dataset metadata read, tile entries to load
OpenTiles(f, g, ds, bs, md) ==
    IF md.bad \/ RdU64(f, md.pos, g) > ParseLimit THEN NoDataset("")
    ELSE [ok |-> TRUE, why |-> "",
          pos |-> IF Advance(f, md.pos, 8) >= Len(f) THEN Advance(f, md.pos, 8)
                  ELSE Min(Advance(f, md.pos, 8) + 56 * RdU64(f, md.pos, g), Len(f)),
          hdr |-> IF md.present
                  THEN [ds EXCEPT !.m_papszMetadataList =
                           DatasetUpdateMetadataList(
                               DatasetSetMetadata(ds.m_papszMetadataList, md.list, 1),
                               ds.m_bCloudOptimised)]
                  ELSE ds,
          bands |-> bs,
          tiles |-> ReadTiles(f, Advance(f, md.pos, 8), RdU64(f, md.pos, g), g, EmptyTiles)]

\* Open after the band loop: geotransform (48 bytes), WKT, dataset metadata
OpenGeo(f, g, ds, bs) ==
    IF bs.bad \/ RdU64(f, Advance(f, bs.pos, 48), g) > ParseLimit THEN NoDataset("")
    ELSE OpenTiles(f, g, ds, bs.bands,
             ReadMetadata(f, Advance(f, Advance(f, Advance(f, bs.pos, 48), 8),
                                     RdU64(f, Advance(f, bs.pos, 48), g)), g))

\* Open after "HDR": data type, band count, width, height (u64), tile size (u32)
OpenFixed(f, g, bCloudOptimised, pos, fixed) ==
    IF U64At(fixed, 9) > ParseLimit THEN NoDataset("")
    ELSE OpenGeo(f, g,
             NewDataset(U64At(fixed, 1), U64At(fixed, 17), U64At(fixed, 25),
                        bCloudOptimised, U32At(fixed, 33)),
             ReadBands(f, pos, 1, U64At(fixed, 9), U32At(fixed, 33), g, <<>>))

\* Open from the trailing offset on: headerChars against "HDR"
OpenHeader(f, hg, g, bCloudOptimised, headerOffset) ==
    IF ReadAt(f, headerOffset, 4, hg) # Str.HDR \o <<0>> THEN NoDataset("CPLE_OpenFailed")
    ELSE OpenFixed(f, g, bCloudOptimised, Advance(f, Advance(f, headerOffset, 4), 36),
                   ReadAt(f, Advance(f, headerOffset, 4), 36, Fill(36, g)))

\* Open without its test of the access asked for
OpenFileAnyAccess(f, access, hg, g) ==
    IF ~Identify(f) THEN NoDataset("")
    ELSE OpenHeader(f, hg, g, (GetU32(ReadAt(f, 7, 4, Fill(4, 0))) % 2) = 1,
                    IF Len(f) >= 8 THEN RdU64(f, Len(f) - 8, g) ELSE HUGE)

\* EMUDataset::Open.  hg is what headerChars holds before the read and g the
\* byte every other variable is filled with before its read: both only show
\* where a read comes back short.
OpenFile(f, access, hg, g) ==
    IF ~Identify(f) THEN NoDataset("")
    ELSE IF access = GA_Update THEN NoDataset("CPLE_NotSupported")
    ELSE OpenHeader(f, hg, g, (GetU32(ReadAt(f, 7, 4, Fill(4, 0))) % 2) = 1,
                    IF Len(f) >= 8 THEN RdU64(f, Len(f) - 8, g) ELSE HUGE)

-----------------------------------------------------------------------------
(* The block engine (emuband.cpp) *)

\* the valid rows of a block buffer, packed: the row loop of IWriteBlock
SubsetRows(pData, nXValid, nYValid, bsz, ts) ==
    Concat([r \in 1..nYValid |->
               SubSeq(pData, (r - 1) * bsz * ts + 1, (r - 1) * bsz * ts + nXValid * ts)], 1)

\* ExpandRows with the destination advanced by the packed row length instead
\* of the block row length
ExpandRowsPacked(pDstData, pUncompressed, nXValid, nYValid, bsz, ts, g) ==
    [i \in 1..Len(pDstData) |->
        IF i <= nXValid * nYValid * ts
        THEN IF i <= Len(pUncompressed) THEN pUncompressed[i] ELSE g
        ELSE pDstData[i]]

\* the row loop of IReadBlock: packed rows copied into the block buffer; a
\* source index past the end of pUncompressed reads the byte g
ExpandRows(pDstData, pUncompressed, nXValid, nYValid, bsz, ts, g) ==
    [i \in 1..Len(pDstData) |->
        LET row == (i - 1) \div (bsz * ts)
            col == (i - 1) % (bsz * ts)
            src == row * nXValid * ts + col + 1
        IN  IF row < nYValid /\ col < nXValid * ts
            THEN IF src <= Len(pUncompressed) THEN pUncompressed[src] ELSE g
            ELSE pDstData[i]]

\* EMUDataset::getTileOffset: operator[] of the map, which adds a zero entry
\* for a key that is not there
ZeroTile == [offset |-> 0, size |-> 0, uncompressedSize |-> 0]

getTileOffset(m, o, band, x, y) ==
    IF <<o, band, x, y>> \in DOMAIN m THEN m ELSE m @@ (<<o, band, x, y>> :> ZeroTile)

\* EMURasterBand::IWriteBlock on a band object of band number nBandIn, block
\* size bsz and raster size xs by ys: the file, position and map it leaves.
\* The band itself keys its tiles with level 0; nLevel is LevelOf the object.
WriteBlock(f, pos, tiles, nLevel, nBandIn, eType, bsz, xs, ys, x, y, pData) ==
    LET nXValid == ValidAlong(xs, bsz, x)
        nYValid == ValidAlong(ys, bsz, y)
        tileOffset == pos
        typeSize == typeSizeOf(eType)
        compression == COMPRESSION_ZLIB
        uncompressedSize == (nXValid * nYValid) * typeSize
        pSubData == IF nXValid # bsz \/ nYValid # bsz
                    THEN SubsetRows(pData, nXValid, nYValid, bsz, typeSize)
                    ELSE Take(pData, uncompressedSize)
        pCompressed == doCompression(compression, pSubData, uncompressedSize + COMPRESS_SLACK)
    IN  [file |-> WriteAt(WriteAt(f, pos, <<compression>>), pos + 1, pCompressed),
         pos |-> pos + 1 + Len(pCompressed),
         tiles |-> setTileOffset(tiles, nLevel, nBandIn, x, y, tileOffset,
                                 Len(pCompressed), uncompressedSize)]

\* EMURasterBand::IReadBlock past its access check: the buffer, position and
\* map it leaves.  g is the content of memory the code reads before writing it.
ReadBlock(f, tiles, nLevel, nBandIn, eType, bsz, xs, ys, x, y, pData, g) ==
    LET m == getTileOffset(tiles, nLevel, nBandIn, x, y)
        val == m[<<nLevel, nBandIn, x, y>>]
        compression == ReadAt(f, val.offset, 1, <<g>>)[1]
        p1 == Advance(f, val.offset, 1)
        nXValid == ValidAlong(xs, bsz, x)
        nYValid == ValidAlong(ys, bsz, y)
        typeSize == typeSizeOf(eType)
        pSubData == ReadAt(f, p1, val.size, Fill(val.size, g))
        pUncompressed == doUncompression(compression, pSubData, Fill(val.uncompressedSize, g))
        direct == doUncompression(compression, pSubData, Take(pData, val.uncompressedSize))
    IN  [out |-> IF nXValid # bsz \/ nYValid # bsz
                 THEN ExpandRows(pData, pUncompressed, nXValid, nYValid, bsz, typeSize, g)
                 ELSE direct \o Drop(pData, Len(direct)),
         pos |-> Advance(f, p1, val.size),
         tiles |-> m]

-----------------------------------------------------------------------------
(* Attribute tables (emurat.cpp).  A numeric value is the integer it equals: *)
(* an int64 in the payload of an Integer column, a double in that of a Real *)
(* column.                                                                  *)

GF_Read == 0
GF_Write == 1

\* the columns a table of the model may have
MaxCols == 1

\* the body of EMURat::CreateColumn
AddColumn(rat, pszFieldName, eFieldType) ==
    [rat EXCEPT !.m_cols = Append(@, [sName |-> pszFieldName, colType |-> eFieldType,
                                     chunks |-> <<>>])]

\* a SetRowCount that takes every count it is given
RaiseRowCountAlways(rat, iCount) == [rat EXCEPT !.m_nRowCount = iCount]

\* the body of EMURat::SetRowCount
RaiseRowCount(rat, iCount) ==
    IF iCount > rat.m_nRowCount THEN [rat EXCEPT !.m_nRowCount = iCount] ELSE rat

\* a ValuesIO write that puts all its rows into one chunk
WriteChunksWhole(f, pos, chunks, iStartRow, elems) ==
    IF elems = <<>> THEN [file |-> f, pos |-> pos, chunks |-> chunks]
    ELSE LET raw == Concat(elems, 1)
             pCompressed == doCompression(COMPRESSION_ZLIB, raw, Len(raw) + COMPRESS_SLACK)
         IN  [file |-> WriteAt(f, pos, <<COMPRESSION_ZLIB>> \o pCompressed),
              pos |-> pos + 1 + Len(pCompressed),
              chunks |-> Append(chunks, [startIdx |-> iStartRow,
                                         length |-> Len(elems),
                                         offset |-> pos,
                                         compressedSize |-> Len(pCompressed)])]

\* the chunk loop of a ValuesIO write; elems holds the payload bytes of each
\* row still to write (8 bytes of a number, a string with its NUL)
RECURSIVE WriteChunks(_, _, _, _, _)
WriteChunks(f, pos, chunks, iStartRow, elems) ==
    IF elems = <<>> THEN [file |-> f, pos |-> pos, chunks |-> chunks]
    ELSE LET iThisBlockLength == Min(Len(elems), MAX_RAT_CHUNK)
             raw == Concat(SubSeq(elems, 1, iThisBlockLength), 1)
             pCompressed == doCompression(COMPRESSION_ZLIB, raw, Len(raw) + COMPRESS_SLACK)
         IN  WriteChunks(WriteAt(f, pos, <<COMPRESSION_ZLIB>> \o pCompressed),
                         pos + 1 + Len(pCompressed),
                         Append(chunks, [startIdx |-> iStartRow,
                                         length |-> iThisBlockLength,
                                         offset |-> pos,
                                         compressedSize |-> Len(pCompressed)]),
                         iStartRow + iThisBlockLength,
                         Drop(elems, iThisBlockLength))

\* the scan that opens a ValuesIO read: the first chunk of the list whose
\* startIdx is not after iStartRow (0 when there is none)
StartChunk(chunks, iStartRow) ==
    LET S == {n \in 1..Len(chunks) : chunks[n].startIdx <= iStartRow}
    IN  IF S = {} THEN 0 ELSE CHOOSE n \in S : \A k \in S : n <= k

\* a chunk read and decompressed into a fresh buffer of nSize bytes
ChunkBuffer(f, chunk, nSize, g) ==
    doUncompression(ReadAt(f, chunk.offset, 1, <<g>>)[1],
                    ReadAt(f, chunk.offset + 1, chunk.compressedSize,
                           Fill(chunk.compressedSize, g)),
                    Fill(nSize, g))

\* the file position after a chunk was read
ChunkEnd(f, chunk) ==
    IF chunk.offset >= Len(f) THEN chunk.offset
    ELSE Min(Len(f), chunk.offset + 1 + chunk.compressedSize)

\* the 8 bytes of element e (from 0) of a buffer; bytes past the end of the
\* buffer are whatever follows it in memory
ElemAt(buf, e, g) ==
    [j \in 1..8 |-> IF 8 * e + j <= Len(buf) THEN buf[8 * e + j] ELSE g]

\* the chunk loop of a numeric ValuesIO read and the padding after it;
\* nElemAlloc is the element size the decompression buffer is sized with
RECURSIVE CopyNumbers(_, _, _, _, _, _, _, _, _)
CopyNumbers(f, pos, chunks, startChunk, nElsToSkipAtStart, iLength, acc, nElemAlloc, g) ==
    IF Len(acc) >= iLength THEN [out |-> acc, pos |-> pos]
    ELSE IF startChunk > Len(chunks)
    THEN [out |-> acc \o Fill(iLength - Len(acc), Fill(8, 0)), pos |-> pos]
    ELSE CopyNumbers(f, ChunkEnd(f, chunks[startChunk]), chunks, startChunk + 1, 0, iLength,
             acc \o [i \in 1..Min(iLength - Len(acc), chunks[startChunk].length) |->
                        ElemAt(ChunkBuffer(f, chunks[startChunk],
                                           chunks[startChunk].length * nElemAlloc, g),
                               nElsToSkipAtStart + i - 1, g)],
             nElemAlloc, g)

\* the string at position p of a buffer, as strlen and CPLStrdup see it, and
\* the position after its NUL; reading past the end of the buffer finds
\* whatever follows it in memory up to the first NUL there
StrAt(buf, p, g) ==
    IF NulAt(buf, p) <= Len(buf)
    THEN [str |-> SubSeq(buf, p, NulAt(buf, p) - 1), next |-> NulAt(buf, p) + 1]
    ELSE [str |-> SubSeq(buf, p, Len(buf)) \o (IF g = 0 THEN <<>> ELSE <<g>>),
          next |-> (IF p > Len(buf) THEN p ELSE Len(buf) + 1) + (IF g = 0 THEN 1 ELSE 2)]

\* the loop that steps over the strings before the first one asked for
RECURSIVE SkipStrings(_, _, _, _)
SkipStrings(buf, p, n, g) ==
    IF n = 0 THEN p ELSE SkipStrings(buf, StrAt(buf, p, g).next, n - 1, g)

\* the copy loop of a string chunk
RECURSIVE TakeStrings(_, _, _, _)
TakeStrings(buf, p, n, g) ==
    IF n = 0 THEN <<>>
    ELSE <<StrAt(buf, p, g).str>> \o TakeStrings(buf, StrAt(buf, p, g).next, n - 1, g)

\* the chunk loop of a string ValuesIO read and the padding after it
RECURSIVE CopyStrings(_, _, _, _, _, _, _, _)
CopyStrings(f, pos, chunks, startChunk, nElsToSkipAtStart, iLength, acc, g) ==
    IF Len(acc) >= iLength THEN [out |-> acc, pos |-> pos]
    ELSE IF startChunk > Len(chunks)
    THEN [out |-> acc \o Fill(iLength - Len(acc), <<>>), pos |-> pos]
    ELSE CopyStrings(f, ChunkEnd(f, chunks[startChunk]), chunks, startChunk + 1, 0, iLength,
             acc \o TakeStrings(ChunkBuffer(f, chunks[startChunk],
                                            chunks[startChunk].length * 4, g),
                                SkipStrings(ChunkBuffer(f, chunks[startChunk],
                                                        chunks[startChunk].length * 4, g),
                                            1, nElsToSkipAtStart, g),
                                Min(iLength - Len(acc), chunks[startChunk].length), g),
             g)

\* what a ValuesIO call leaves: its result, the file and its position, the
\* table, and the caller's buffer
RatResult(err, msg, f, pos, rat, out, lk) ==
    [err |-> err, msg |-> msg, file |-> f, pos |-> pos, rat |-> rat, out |-> out, lk |-> lk]

\* the rows of a call that lie below the row count
ClampLength(rat, iStartRow, iLength) ==
    IF iStartRow + iLength > rat.m_nRowCount THEN rat.m_nRowCount - iStartRow ELSE iLength

\* the part all three ValuesIO share once the column type fits the buffer:
\* elems are the payload bytes of the rows to write, prior the caller's buffer
\* as payload elements, nElemAlloc 0 for strings
ChunkIO(rat, access, f, pos, eRWFlag, iField, iStartRow, iLength, elems, prior, nElemAlloc, g) ==
    IF iStartRow >= rat.m_nRowCount
    THEN RatResult(CE_None, "", f, pos, rat, prior, FALSE)
    ELSE IF eRWFlag = GF_Write
    THEN IF access # GA_Update
         THEN RatResult(CE_Failure, "CPLE_NotSupported", f, pos, rat, prior, TRUE)
         ELSE LET w == WriteChunks(f, pos, rat.m_cols[iField + 1].chunks, iStartRow,
                                   Take(elems, ClampLength(rat, iStartRow, iLength)))
              IN  RatResult(CE_None, "", w.file, w.pos,
                            [rat EXCEPT !.m_cols[iField + 1].chunks = w.chunks], prior, TRUE)
    ELSE IF StartChunk(rat.m_cols[iField + 1].chunks, iStartRow) = 0
    THEN RatResult(CE_None, "", f, pos, rat, prior, TRUE)
    ELSE LET chunks == rat.m_cols[iField + 1].chunks
             n == StartChunk(chunks, iStartRow)
             r == IF nElemAlloc = 0
                  THEN CopyStrings(f, pos, chunks, n, iStartRow - chunks[n].startIdx,
                                   ClampLength(rat, iStartRow, iLength), <<>>, g)
                  ELSE CopyNumbers(f, pos, chunks, n, iStartRow - chunks[n].startIdx,
                                   ClampLength(rat, iStartRow, iLength), <<>>, nElemAlloc, g)
         IN  RatResult(CE_None, "", f, r.pos, rat,
                       r.out \o Drop(prior, Len(r.out)), TRUE)

\* the assignment of an int64 payload element to an int
IntOf(elem) == GetU32(Take(elem, 4))

\* EMURat::ValuesIO(double*) on a Real column; pdfData is a sequence of doubles
ValuesIO_real(rat, access, f, pos, eRWFlag, iField, iStartRow, iLength, pdfData, g) ==
    LET r == ChunkIO(rat, access, f, pos, eRWFlag, iField, iStartRow, iLength,
                     [i \in 1..Len(pdfData) |-> DoubleBytes(pdfData[i])],
                     [i \in 1..Len(pdfData) |-> DoubleBytes(pdfData[i])], 8, g)
    IN  [r EXCEPT !.out = [i \in 1..Len(pdfData) |-> BytesDouble(r.out[i])]]

\* EMURat::ValuesIO(int*); pnData is a sequence of ints
ValuesIO_int(rat, access, f, pos, eRWFlag, iField, iStartRow, iLength, pnData, g) ==
    IF rat.m_cols[iField + 1].colType = GFT_Real
    THEN IF eRWFlag = GF_Write
         THEN [ValuesIO_real(rat, access, f, pos, eRWFlag, iField, iStartRow, iLength,
                             pnData, g) EXCEPT !.out = pnData]
         ELSE \* the result is copied to pnData only when the read failed
              LET r == ValuesIO_real(rat, access, f, pos, eRWFlag, iField, iStartRow,
                                     iLength, Fill(iLength, OtherDouble), g)
              IN  [r EXCEPT !.out = IF r.err # CE_None THEN r.out ELSE pnData]
    ELSE IF rat.m_cols[iField + 1].colType = GFT_String
    THEN RatResult(CE_Failure, "CPLE_FileIO", f, pos, rat, pnData, FALSE)
    ELSE LET r == ChunkIO(rat, access, f, pos, eRWFlag, iField, iStartRow, iLength,
                          [i \in 1..Len(pnData) |-> U64(pnData[i])],
                          [i \in 1..Len(pnData) |-> U64(pnData[i])], 4, g)
         IN  [r EXCEPT !.out = [i \in 1..Len(pnData) |-> IntOf(r.out[i])]]

\* EMURat::ValuesIO(double*)
ValuesIO_double(rat, access, f, pos, eRWFlag, iField, iStartRow, iLength, pdfData, g) ==
    IF rat.m_cols[iField + 1].colType = GFT_Integer
    THEN IF eRWFlag = GF_Write
         THEN [ValuesIO_int(rat, access, f, pos, eRWFlag, iField, iStartRow, iLength,
                            pdfData, g) EXCEPT !.out = pdfData]
         ELSE \* the result is copied to pdfData only when the read failed
              LET r == ValuesIO_int(rat, access, f, pos, eRWFlag, iField, iStartRow,
                                    iLength, Fill(iLength, HUGE), g)
              IN  [r EXCEPT !.out = IF r.err # CE_None THEN r.out ELSE pdfData]
    ELSE IF rat.m_cols[iField + 1].colType = GFT_String
    THEN RatResult(CE_Failure, "CPLE_FileIO", f, pos, rat, pdfData, FALSE)
    ELSE ValuesIO_real(rat, access, f, pos, eRWFlag, iField, iStartRow, iLength, pdfData, g)

\* a ValuesIO(char**) without its test of the column type
ValuesIO_stringAnyType(rat, access, f, pos, eRWFlag, iField, iStartRow, iLength, papszStrList, g) ==
    ChunkIO(rat, access, f, pos, eRWFlag, iField, iStartRow, iLength,
            [i \in 1..Len(papszStrList) |-> papszStrList[i] \o <<0>>],
            papszStrList, 0, g)

\* EMURat::ValuesIO(char**); papszStrList is a sequence of strings
ValuesIO_string(rat, access, f, pos, eRWFlag, iField, iStartRow, iLength, papszStrList, g) ==
    IF rat.m_cols[iField + 1].colType # GFT_String
    THEN RatResult(CE_Failure, "CPLE_NotSupported", f, pos, rat, papszStrList, FALSE)
    ELSE ChunkIO(rat, access, f, pos, eRWFlag, iField, iStartRow, iLength,
                 [i \in 1..Len(papszStrList) |-> papszStrList[i] \o <<0>>],
                 papszStrList, 0, g)

-----------------------------------------------------------------------------
(* State machine: the dataset life cycle and block I/O *)

EMU_VERSION == 1

\* the raster of the model: one full tile and partial edge tiles on both axes
RasterSize == DFLT_TILESIZE + 1

Patterns == 1..MaxPattern

\* a block buffer of bsz by bsz pixels as a caller fills it
BlockData(pat, bsz, ts) ==
    [i \in 1..(bsz * bsz * ts) |-> IF pat = 1 THEN 7 ELSE (pat * 16 + i * 3) % 256]

\* the bytes a caller's buffer or an uninitialised variable may hold
Garbage == {0, 170}

HeaderGarbage == {Fill(4, 0), Str.HDR \o <<0>>}

NoHdr == NewDataset(GDT_Byte, 0, 0, FALSE, 0)

NoOp == [op |-> "none", err |-> CE_None, obj |-> <<0, 0>>, x |-> 0, y |-> 0,
         out |-> <<>>, pre |-> <<>>, n |-> 0, lk |-> FALSE, msg |-> ""]

\* the threads that call IWriteBlock on one dataset
MaxThreads == 2

Threads == 1..MaxThreads

\* a thread that has made no call
IdleThread ==
    [pc |-> "idle", x |-> 0, y |-> 0, pat |-> 0, tileOffset |-> NULL,
     discAt |-> NULL, dataAt |-> NULL, waited |-> FALSE, raced |-> FALSE]

Init ==
    /\ m_mutex = NULL
    /\ threads = [t \in Threads |-> IdleThread]
    /\ file = <<>>
    /\ alive = FALSE
    /\ m_fp = NULL
    /\ eAccess = GA_ReadOnly
    /\ hdr = NoHdr
    /\ bands = <<>>
    /\ m_tileOffsets = EmptyTiles
    /\ submitted = EmptyTiles
    /\ ratLog = EmptyTiles
    /\ lastOp = NoOp
    /\ nOps = 0

\* EMUDataset::Create
Create(nBands, eType) ==
    /\ ~alive
    /\ file = <<>>
    /\ file' = Str.EMU \o <<CH_ZERO, CH_ZERO, CH_ZERO, CH_ZERO + EMU_VERSION>> \o U32(0)
    /\ m_fp' = Len(file')
    /\ alive' = TRUE
    /\ eAccess' = GA_Update
    /\ hdr' = NewDataset(eType, RasterSize, RasterSize, FALSE, DFLT_TILESIZE)
    /\ bands' = [n \in 1..nBands |-> NewBand(n, DFLT_TILESIZE)]
    /\ m_tileOffsets' = EmptyTiles
    /\ lastOp' = [NoOp EXCEPT !.op = "Create", !.n = nBands]
    /\ nOps' = 0
    /\ UNCHANGED <<m_mutex, threads, submitted, ratLog>>

\* EMURasterBand::CreateOverviews(nOverviews, panOverviewList): one child band
\* per decimation factor; a second call on the same band fails
CreateOverviews(b, xs, ys, factors) ==
    IF b.ovSet THEN [err |-> CE_Failure, msg |-> "overviews already set", band |-> b]
    ELSE [err |-> CE_None, msg |-> "",
          band |-> [b EXCEPT !.ovSet = TRUE,
                             !.ovs = [i \in 1..Len(factors) |->
                                         [xSize |-> xs \div factors[i],
                                          ySize |-> ys \div factors[i],
                                          tileSize |-> b.nBlockXSize \div factors[i]]]]]

\* a band loop that goes on after an error and returns CE_None
BuildOverviewsAll(bs, h, panBandList, i, factors) ==
    [err |-> CE_None, msg |-> "",
     bands |-> [n \in 1..Len(bs) |->
                   IF \E j \in i..Len(panBandList) : panBandList[j] = n
                   THEN CreateOverviews(bs[n], h.nRasterXSize, h.nRasterYSize, factors).band
                   ELSE bs[n]]]

\* the band loop of IBuildOverviews, which stops at the first error
RECURSIVE BuildOverviews(_, _, _, _, _)
BuildOverviews(bs, h, panBandList, i, factors) ==
    IF i > Len(panBandList) THEN [err |-> CE_None, msg |-> "", bands |-> bs]
    ELSE LET r == CreateOverviews(bs[panBandList[i]], h.nRasterXSize, h.nRasterYSize, factors)
         IN  IF r.err # CE_None THEN [err |-> r.err, msg |-> r.msg, bands |-> bs]
             ELSE BuildOverviews([bs EXCEPT ![panBandList[i]] = r.band], h,
                                 panBandList, i + 1, factors)

\* EMUDataset::IBuildOverviews
IBuildOverviews(panBandList, factors) ==
    /\ alive /\ eAccess = GA_Update /\ m_fp # NULL
    /\ nOps = 0
    /\ \A i \in 1..Len(panBandList) : panBandList[i] <= Len(bands)
    /\ LET r == BuildOverviews(bands, hdr, panBandList, 1, factors)
       IN  /\ bands' = r.bands
           /\ lastOp' = [NoOp EXCEPT !.op = "IBuildOverviews", !.err = r.err,
                                     !.msg = r.msg, !.pre = panBandList]
    /\ UNCHANGED <<m_mutex, threads, file, alive, m_fp, eAccess, hdr, m_tileOffsets, submitted,
                   ratLog, nOps>>

\* EMURasterBand::IWriteBlock, called on band object obj for block (x, y)
BlockWritten(obj, x, y, pat) ==
    /\ alive /\ eAccess = GA_Update /\ m_fp # NULL
    /\ obj \in BandObjs(bands)
    /\ x < BlocksAlong(ObjXSize(hdr, bands, obj), ObjBlockSize(hdr, bands, obj))
    /\ y < BlocksAlong(ObjYSize(hdr, bands, obj), ObjBlockSize(hdr, bands, obj))
    /\ LET bsz == ObjBlockSize(hdr, bands, obj)
           pData == BlockData(pat, bsz, typeSizeOf(hdr.m_eType))
           r == WriteBlock(file, m_fp, m_tileOffsets, LevelOf(obj), bands[obj[1]].nBand, hdr.m_eType,
                           bsz, ObjXSize(hdr, bands, obj), ObjYSize(hdr, bands, obj),
                           x, y, pData)
       IN  /\ file' = r.file
           /\ m_fp' = r.pos
           /\ m_tileOffsets' = r.tiles
           /\ submitted' = [k \in DOMAIN submitted \cup {<<obj[2], obj[1], x, y>>} |->
                               IF k # <<obj[2], obj[1], x, y>> THEN submitted[k]
                               ELSE [data |-> pData,
                                     n |-> IF k \in DOMAIN submitted
                                           THEN submitted[k].n + 1 ELSE 1]]
           /\ lastOp' = [NoOp EXCEPT !.op = "IWriteBlock", !.obj = obj, !.x = x, !.y = y,
                                     !.pre = pData, !.lk = TRUE]
    /\ nOps' = nOps + 1
    /\ UNCHANGED <<m_mutex, threads, alive, eAccess, hdr, bands, ratLog>>

\* a call of IWriteBlock in a session of at most MaxOps calls
IWriteBlock(obj, x, y, pat) == nOps < MaxOps /\ BlockWritten(obj, x, y, pat)

\* IReadBlock with no test of the access mode
ReadRejectedNever(access) == FALSE

\* the access test that opens IReadBlock: a dataset being written is not read
ReadRejected(access) == access = GA_Update

\* EMURasterBand::IReadBlock, called on band object obj for block (x, y) with a
\* block buffer that holds the byte g everywhere
IReadBlock(obj, x, y, g) ==
    /\ alive
    /\ eAccess = GA_Update \/ nOps < MaxReads
    /\ nOps' = IF eAccess = GA_Update THEN nOps ELSE nOps + 1
    /\ eAccess = GA_ReadOnly \/ m_fp # NULL
    /\ obj \in BandObjs(bands)
    /\ x < BlocksAlong(ObjXSize(hdr, bands, obj), ObjBlockSize(hdr, bands, obj))
    /\ y < BlocksAlong(ObjYSize(hdr, bands, obj), ObjBlockSize(hdr, bands, obj))
    /\ LET bsz == ObjBlockSize(hdr, bands, obj)
           pData == Fill(bsz * bsz * typeSizeOf(hdr.m_eType), g)
           r == ReadBlock(file, m_tileOffsets, LevelOf(obj), bands[obj[1]].nBand, hdr.m_eType, bsz,
                          ObjXSize(hdr, bands, obj), ObjYSize(hdr, bands, obj),
                          x, y, pData, g)
           seen == [NoOp EXCEPT !.op = "IReadBlock", !.obj = obj, !.x = x, !.y = y,
                                !.pre = pData,
                                !.n = IF <<LevelOf(obj), bands[obj[1]].nBand, x, y>> \in DOMAIN m_tileOffsets
                                      THEN 1 ELSE 0]
       IN  IF ReadRejected(eAccess)
           THEN /\ lastOp' = [seen EXCEPT !.err = CE_Failure, !.out = pData,
                                          !.msg = "CPLE_NotSupported"]
                /\ UNCHANGED <<m_fp, m_tileOffsets>>
           ELSE /\ lastOp' = [seen EXCEPT !.err = CE_None, !.out = r.out, !.lk = TRUE]
                /\ m_fp' = r.pos
                /\ m_tileOffsets' = r.tiles
    /\ UNCHANGED <<m_mutex, threads, file, alive, eAccess, hdr, bands, submitted, ratLog>>

\* the footer offset taken after "HDR" is written
HeaderOffsetAfterMagic(fp) == fp + 4

\* vsi_l_offset headerOffset = VSIFTellL(m_fp), taken before "HDR" is written
HeaderOffset(fp) == fp

\* EMUDataset::Close that seals nothing
CloseResultNoFooter(access, f, fp, h, bs, tiles, flushErr) ==
    [err |-> flushErr, file |-> f, fp |-> NULL, bands |-> bs, sealed |-> FALSE]

\* EMUDataset::Close that writes the footer and keeps the file handle
CloseResultKeepsHandle(access, f, fp, h, bs, tiles, flushErr) ==
    IF access = GA_Update /\ fp # NULL /\ flushErr = CE_None
    THEN LET out == WriteAt(f, fp, FooterBytes(HeaderOffset(fp), h, bs, tiles))
         IN  [err |-> CE_None, file |-> out, fp |-> Len(out), bands |-> bs, sealed |-> TRUE]
    ELSE [err |-> IF access = GA_Update /\ fp # NULL THEN flushErr ELSE CE_None,
          file |-> f, fp |-> fp, bands |-> bs, sealed |-> FALSE]

\* EMUDataset::Close on a dataset object: what it leaves, and its result.
\* flushErr is the result of the FlushCache calls (raised by the block cache,
\* outside this code).
CloseResult(access, f, fp, h, bs, tiles, flushErr) ==
    IF access = GA_Update /\ fp # NULL
    THEN IF flushErr # CE_None
         THEN [err |-> flushErr, file |-> f, fp |-> fp, bands |-> bs, sealed |-> FALSE]
         ELSE [err |-> CE_None,
               file |-> WriteAt(f, fp, FooterBytes(HeaderOffset(fp), h, bs, tiles)),
               fp |-> NULL,
               bands |-> [n \in 1..Len(bs) |->
                             [bs[n] EXCEPT !.m_rat = SortedRat(bs[n].m_rat)]],
               sealed |-> TRUE]
    ELSE [err |-> CE_None, file |-> f, fp |-> fp, bands |-> bs, sealed |-> FALSE]

\* an explicit call of EMUDataset::Close
Close(flushErr) ==
    /\ alive
    /\ LET r == CloseResult(eAccess, file, m_fp, hdr, bands, m_tileOffsets, flushErr)
       IN  /\ file' = r.file
           /\ m_fp' = r.fp
           /\ bands' = r.bands
           /\ lastOp' = [NoOp EXCEPT !.op = "Close", !.err = r.err, !.pre = file,
                                     !.x = m_fp,
                                     !.n = IF r.sealed THEN 1 ELSE 0]
    /\ UNCHANGED <<m_mutex, threads, alive, eAccess, hdr, m_tileOffsets, submitted, ratLog, nOps>>

\* a destructor that does not call Close
DestructorNoClose(access, f, fp, h, bs, tiles, flushErr) ==
    [err |-> CE_None, file |-> f, fp |-> fp, bands |-> bs, sealed |-> FALSE]

\* the body of EMUDataset::~EMUDataset
DestructorClose(access, f, fp, h, bs, tiles, flushErr) ==
    CloseResult(access, f, fp, h, bs, tiles, flushErr)

\* EMUDataset::~EMUDataset: Close, then the object is gone.  lastOp.n is 1
\* when the object was still writing (no Close had sealed the file before).
Destroy(flushErr) ==
    /\ alive
    /\ LET r == DestructorClose(eAccess, file, m_fp, hdr, bands, m_tileOffsets, flushErr)
       IN  /\ file' = r.file
           /\ lastOp' = [NoOp EXCEPT !.op = "Destroy", !.err = r.err, !.pre = file,
                                     !.x = m_fp, !.y = eAccess, !.out = bands,
                                     !.n = IF eAccess = GA_Update /\ m_fp # NULL
                                           THEN 1 ELSE 0]
    /\ alive' = FALSE
    /\ m_fp' = NULL
    /\ eAccess' = GA_ReadOnly
    /\ hdr' = NoHdr
    /\ bands' = <<>>
    /\ m_tileOffsets' = EmptyTiles
    /\ nOps' = 0
    /\ UNCHANGED <<m_mutex, threads, submitted, ratLog>>

\* the object Open returns (r), installed as the live dataset
Opened(access, r) ==
    /\ alive' = r.ok
    /\ m_fp' = IF r.ok THEN r.pos ELSE NULL
    /\ hdr' = IF r.ok THEN r.hdr ELSE NoHdr
    /\ bands' = IF r.ok THEN r.bands ELSE <<>>
    /\ m_tileOffsets' = IF r.ok THEN r.tiles ELSE EmptyTiles
    /\ lastOp' = [NoOp EXCEPT !.op = "Open", !.n = access, !.pre = file, !.msg = r.why,
                              !.err = IF r.ok THEN CE_None ELSE CE_Failure]

\* EMUDataset::Open of the file with the access asked for
Open(access, hg, g) ==
    /\ ~alive
    /\ file # <<>>
    /\ Opened(access, OpenFile(file, access, hg, g))
    /\ eAccess' = GA_ReadOnly
    /\ nOps' = 0
    /\ UNCHANGED <<m_mutex, threads, file, submitted, ratLog>>

\* the tile life cycle: create, lay out overviews, write blocks, close or
\* drop, open again, read blocks
NextTile ==
    \/ \E nBands \in 1..MaxBands, eType \in {GDT_Byte, GDT_UInt16} : Create(nBands, eType)
    \/ \E l \in {<<1>>, <<1, 2>>} : IBuildOverviews(l, <<2>>)
    \/ \E obj \in BandObjs(bands), x, y \in 0..DFLT_TILESIZE, pat \in Patterns :
           IWriteBlock(obj, x, y, pat)
    \/ \E obj \in BandObjs(bands), x, y \in 0..DFLT_TILESIZE, g \in Garbage :
           IReadBlock(obj, x, y, g)
    \/ \E flushErr \in {CE_None, CE_Failure} : Close(flushErr)
    \/ \E flushErr \in {CE_None, CE_Failure} : Destroy(flushErr)
    \/ \E access \in {GA_ReadOnly, GA_Update}, hg \in HeaderGarbage, g \in Garbage :
           Open(access, hg, g)

SpecTile == Init /\ [][NextTile]_vars

-----------------------------------------------------------------------------
(* State machine: attribute table I/O *)

\* the value a caller writes to row r in its t-th call: never 0, and another
\* one than the call before wrote to the row
RatValue(t, r) == 1 + ((r + 4 * (t - 1)) % 9)

\* the string a caller writes to row r in its t-th call: of 1 or of 4
\* characters
RatString(t, r) == Fill(IF t % 2 = 1 THEN 1 ELSE 4, 97 + r)

\* what a caller's buffer holds before a read
PriorNumbers == {0, 9}
PriorStrings == {<<>>, <<63>>}

\* EMURat::CreateColumn on the table of band b
CreateColumn(b, eFieldType) ==
    /\ alive /\ eAccess = GA_Update /\ m_fp # NULL
    /\ nOps = 0
    /\ b \in 1..Len(bands)
    /\ Len(bands[b].m_rat.m_cols) < MaxCols
    /\ bands' = [bands EXCEPT ![b].m_rat = AddColumn(@, <<65 + eFieldType>>, eFieldType)]
    /\ lastOp' = [NoOp EXCEPT !.op = "CreateColumn", !.obj = <<b, 0>>, !.n = eFieldType]
    /\ UNCHANGED <<m_mutex, threads, file, alive, m_fp, eAccess, hdr, m_tileOffsets, submitted, ratLog, nOps>>

\* EMURat::SetRowCount on the table of band b, at any time of a session
RowCountSet(b, iCount) ==
    /\ alive /\ eAccess = GA_Update /\ m_fp # NULL
    /\ b \in 1..Len(bands)
    /\ bands' = [bands EXCEPT ![b].m_rat = RaiseRowCount(@, iCount)]
    /\ lastOp' = [NoOp EXCEPT !.op = "SetRowCount", !.obj = <<b, 0>>, !.n = iCount]
    /\ UNCHANGED <<m_mutex, threads, file, alive, m_fp, eAccess, hdr, m_tileOffsets, submitted, ratLog, nOps>>

\* EMURat::SetRowCount before the first row is written, to another count
SetRowCount(b, iCount) ==
    /\ nOps = 0
    /\ b \in 1..Len(bands)
    /\ bands[b].m_rat.m_nRowCount # iCount
    /\ RowCountSet(b, iCount)

\* a ValuesIO call may be made: on a column that exists, of a dataset whose
\* file is open
RatColumn(b, iField) ==
    /\ alive /\ m_fp # NULL
    /\ b \in 1..Len(bands)
    /\ iField < Len(bands[b].m_rat.m_cols)

\* and the session has calls left
RatCallable(b, iField) ==
    /\ RatColumn(b, iField)
    /\ nOps < (IF eAccess = GA_Update THEN MaxOps ELSE MaxReads)

\* the state after a ValuesIO call that returned r; buf is the buffer passed
RatCalled(op, b, iField, eRWFlag, iStartRow, iLength, buf, r) ==
    /\ file' = r.file
    /\ m_fp' = r.pos
    /\ bands' = [bands EXCEPT ![b].m_rat = r.rat]
    /\ lastOp' = [NoOp EXCEPT !.op = op, !.obj = <<b, iField>>, !.x = iStartRow,
                              !.y = eRWFlag, !.n = iLength, !.pre = buf,
                              !.out = r.out, !.err = r.err, !.msg = r.msg, !.lk = r.lk]
    /\ ratLog' =
          IF eRWFlag = GF_Write /\ r.err = CE_None
          THEN LET rows == {row \in iStartRow..(iStartRow + iLength - 1) :
                               row < bands[b].m_rat.m_nRowCount}
               IN  [k \in DOMAIN ratLog \cup {<<b, iField, row>> : row \in rows} |->
                       IF k[1] = b /\ k[2] = iField /\ k[3] \in rows
                       THEN buf[k[3] - iStartRow + 1] ELSE ratLog[k]]
          ELSE ratLog
    /\ nOps' = nOps + 1
    /\ UNCHANGED <<m_mutex, threads, alive, eAccess, hdr, m_tileOffsets, submitted>>

\* the buffer of a call: the rows to write, or what the buffer held before
RatBuffer(eRWFlag, iStartRow, iLength, prior, bString) ==
    [i \in 1..iLength |->
        IF eRWFlag = GF_Read THEN prior
        ELSE IF bString THEN RatString(nOps + 1, iStartRow + i - 1)
        ELSE RatValue(nOps + 1, iStartRow + i - 1)]

\* a call of EMURat::ValuesIO(int*)
IntCalled(b, iField, eRWFlag, iStartRow, iLength, prior, g) ==
    RatCalled("ValuesIO_int", b, iField, eRWFlag, iStartRow, iLength,
              RatBuffer(eRWFlag, iStartRow, iLength, prior, FALSE),
              ValuesIO_int(bands[b].m_rat, eAccess, file, m_fp, eRWFlag, iField,
                           iStartRow, iLength,
                           RatBuffer(eRWFlag, iStartRow, iLength, prior, FALSE), g))

IntIO(b, iField, eRWFlag, iStartRow, iLength, prior, g) ==
    /\ RatCallable(b, iField)
    /\ IntCalled(b, iField, eRWFlag, iStartRow, iLength, prior, g)

\* a call of EMURat::ValuesIO(double*)
DoubleIO(b, iField, eRWFlag, iStartRow, iLength, prior, g) ==
    /\ RatCallable(b, iField)
    /\ RatCalled("ValuesIO_double", b, iField, eRWFlag, iStartRow, iLength,
                 RatBuffer(eRWFlag, iStartRow, iLength, prior, FALSE),
                 ValuesIO_double(bands[b].m_rat, eAccess, file, m_fp, eRWFlag, iField,
                                 iStartRow, iLength,
                                 RatBuffer(eRWFlag, iStartRow, iLength, prior, FALSE), g))

\* a call of EMURat::ValuesIO(char**)
StringCalled(b, iField, eRWFlag, iStartRow, iLength, prior, g) ==
    RatCalled("ValuesIO_string", b, iField, eRWFlag, iStartRow, iLength,
              RatBuffer(eRWFlag, iStartRow, iLength, prior, TRUE),
              ValuesIO_string(bands[b].m_rat, eAccess, file, m_fp, eRWFlag, iField,
                              iStartRow, iLength,
                              RatBuffer(eRWFlag, iStartRow, iLength, prior, TRUE), g))

StringIO(b, iField, eRWFlag, iStartRow, iLength, prior, g) ==
    /\ RatCallable(b, iField)
    /\ StringCalled(b, iField, eRWFlag, iStartRow, iLength, prior, g)

\* the life of an attribute table: create the dataset, declare columns, set
\* the row count, write rows, close and drop, open again, read rows
NextRat ==
    \/ Create(1, GDT_Byte)
    \/ \E eFieldType \in {GFT_Integer, GFT_Real, GFT_String} : CreateColumn(1, eFieldType)
    \/ SetRowCount(1, MaxRows)
    \/ \E iField \in 0..(MaxCols - 1), eRWFlag \in {GF_Read, GF_Write},
          iStartRow \in 0..(MaxRows - 1), iLength \in 1..(MAX_RAT_CHUNK + 1),
          prior \in PriorNumbers, g \in Garbage :
           \/ IntIO(1, iField, eRWFlag, iStartRow, iLength, prior, g)
           \/ DoubleIO(1, iField, eRWFlag, iStartRow, iLength, prior, g)
    \/ \E iField \in 0..(MaxCols - 1), eRWFlag \in {GF_Read, GF_Write},
          iStartRow \in 0..(MaxRows - 1), iLength \in 1..(MAX_RAT_CHUNK + 1),
          prior \in PriorStrings, g \in Garbage :
           StringIO(1, iField, eRWFlag, iStartRow, iLength, prior, g)
    \/ Close(CE_None)
    \/ Destroy(CE_None)
    \/ \E hg \in HeaderGarbage, g \in Garbage : Open(GA_ReadOnly, hg, g)

SpecRat == Init /\ [][NextRat]_vars

\* the last call was a ValuesIO read of a dataset opened read-only
RatReadBack ==
    /\ alive /\ eAccess = GA_ReadOnly
    /\ lastOp.op \in {"ValuesIO_int", "ValuesIO_double", "ValuesIO_string"}
    /\ lastOp.y = GF_Read

\* the column the last ValuesIO call was about
LastColumn == bands[lastOp.obj[1]].m_rat.m_cols[lastOp.obj[2] + 1]

\* the rows of the last call's range that the table has, as buffer indices
LastRows ==
    {i \in 1..lastOp.n : lastOp.x + i - 1 < bands[lastOp.obj[1]].m_rat.m_nRowCount}

\* the value of the most recent write that covers the row at index i of the
\* last call's buffer, or the default when no write covers it
LastWritten(i, default) ==
    IF <<lastOp.obj[1], lastOp.obj[2], lastOp.x + i - 1>> \in DOMAIN ratLog
    THEN ratLog[<<lastOp.obj[1], lastOp.obj[2], lastOp.x + i - 1>>]
    ELSE default

\* C2: a read of an Integer or Real column after Close and re-Open returns,
\* for every row, the value of the most recent write covering it, or 0
C2_NumericReadBack ==
    (RatReadBack /\ lastOp.op # "ValuesIO_string"
                 /\ LastColumn.colType \in {GFT_Integer, GFT_Real})
        => /\ lastOp.err = CE_None
           /\ \A i \in LastRows : lastOp.out[i] = LastWritten(i, 0)

\* C3: a read of a String column after Close and re-Open returns, for every
\* row, the string of the most recent write covering it, or the empty string
C3_StringReadBack ==
    (RatReadBack /\ lastOp.op = "ValuesIO_string" /\ LastColumn.colType = GFT_String)
        => /\ lastOp.err = CE_None
           /\ \A i \in LastRows : lastOp.out[i] = LastWritten(i, <<>>)

\* C4: after Close and re-Open the chunks of every column are sorted by
\* startIdx and their row ranges are pairwise disjoint
C4_ChunksSortedDisjoint ==
    (alive /\ eAccess = GA_ReadOnly) =>
        \A b \in 1..Len(bands) : \A c \in 1..Len(bands[b].m_rat.m_cols) :
            LET chunks == bands[b].m_rat.m_cols[c].chunks
            IN  \A i, j \in 1..Len(chunks) :
                    i < j => /\ chunks[i].startIdx <= chunks[j].startIdx
                             /\ chunks[i].startIdx + chunks[i].length <= chunks[j].startIdx

-----------------------------------------------------------------------------
(* Properties of the tile life cycle, checked under SpecTile *)

\* a file ends with the offset of a footer that starts with "HDR\0"
HasFooter(f) ==
    /\ Len(f) >= 12
    /\ GetU64(SubSeq(f, Len(f) - 7, Len(f))) + 4 <= Len(f) - 8
    /\ ReadAt(f, GetU64(SubSeq(f, Len(f) - 7, Len(f))), 4, Fill(4, 0)) = Str.HDR \o <<0>>

\* a read-only Open of the file returns a dataset, whatever the memory it
\* reads into held before
Readable(f) ==
    \A hg \in HeaderGarbage, g \in Garbage : OpenFile(f, GA_ReadOnly, hg, g).ok

\* no read-only Open of the file returns a dataset
Unreadable(f) ==
    \A hg \in HeaderGarbage, g \in Garbage : ~OpenFile(f, GA_ReadOnly, hg, g).ok

\* the key (level, band, x, y) of the block the last call was about
LastKey == <<lastOp.obj[2], lastOp.obj[1], lastOp.x, lastOp.y>>

\* the pixels of the valid sub-extent of a block buffer of the last call's
\* band object, by row and byte column
LastValid(buf) ==
    LET bsz == ObjBlockSize(hdr, bands, lastOp.obj)
        ts == typeSizeOf(hdr.m_eType)
    IN  [r \in 1..ValidAlong(ObjYSize(hdr, bands, lastOp.obj), bsz, lastOp.y),
         c \in 1..(ValidAlong(ObjXSize(hdr, bands, lastOp.obj), bsz, lastOp.x) * ts) |->
            buf[(r - 1) * bsz * ts + c]]

\* the last call was an IReadBlock on a dataset opened read-only
ReadBack == alive /\ eAccess = GA_ReadOnly /\ lastOp.op = "IReadBlock"

DroppedOpen == lastOp.op = "Destroy" /\ lastOp.n = 1

C7_MissingKeyFails == (ReadBack /\ lastOp.n = 0) => lastOp.err = CE_Failure

\* C8: IReadBlock on a dataset open for writing returns failure and takes no
\* mutex, and the file position and the tile index are as before
C8_ReadInWriteMode ==
    [][(alive /\ eAccess = GA_Update /\ lastOp'.op = "IReadBlock")
          => /\ lastOp'.err = CE_Failure
             /\ lastOp'.msg = "CPLE_NotSupported"
             /\ ~lastOp'.lk
             /\ m_fp' = m_fp
             /\ m_tileOffsets' = m_tileOffsets
             /\ lastOp'.out = lastOp'.pre]_vars

\* C8 witness: a read was refused on a dataset that has tiles written
C8_Witness ==
    /\ alive /\ eAccess = GA_Update /\ lastOp.op = "IReadBlock"
    /\ lastOp.err = CE_Failure
    /\ <<lastOp.obj[2], lastOp.obj[1], lastOp.x, lastOp.y>> \in DOMAIN m_tileOffsets

\* C9: Open of an existing EMU file with update access returns no dataset,
\* raises "not supported", and leaves the file as it was
C9_UpdateOpenFails ==
    (lastOp.op = "Open" /\ lastOp.n = GA_Update)
        => /\ ~alive
           /\ lastOp.err = CE_Failure
           /\ lastOp.msg = "CPLE_NotSupported"
           /\ file = lastOp.pre

\* C9 witness: update access was asked for a sealed file, which a read-only
\* Open reads
C9_Witness ==
    /\ lastOp.op = "Open" /\ lastOp.n = GA_Update
    /\ HasFooter(file) /\ Readable(file)
    /\ submitted # EmptyTiles

\* C10: during a write session an entry of the tile index keeps its value
\* through every later call
C10_EntryStable ==
    [][(alive /\ eAccess = GA_Update /\ alive')
          => \A k \in DOMAIN m_tileOffsets :
                 k \in DOMAIN m_tileOffsets' /\ m_tileOffsets'[k] = m_tileOffsets[k]]_vars

\* C10 witness: a key has been written twice in one write session and its
\* entry is the one of the first write
C10_Witness ==
    /\ alive /\ eAccess = GA_Update
    /\ \E k \in DOMAIN submitted :
           /\ submitted[k].n = 2
           /\ k \in DOMAIN m_tileOffsets
           /\ m_tileOffsets[k].offset = 11

\* the last call was a Close, explicit or from the destructor, that wrote the
\* footer
Sealed == lastOp.op \in {"Close", "Destroy"} /\ lastOp.n = 1 /\ lastOp.err = CE_None

\* the u64 that precedes n tile entries of 56 bytes and the trailing offset
TileCountBefore(f, n) == GetU64(SubSeq(f, Len(f) - 15 - 56 * n, Len(f) - 8 - 56 * n))

\* C12: the tileCount Close writes is the number of entries of the tile index
\* at that moment, which is the number of distinct keys written in the
\* session (zero when no tile was written); Open loads as many entries and
\* ends at the trailing offset
C12_TileCount ==
    Sealed =>
        /\ lastOp.op = "Close" =>
               Cardinality(DOMAIN m_tileOffsets) = Cardinality(DOMAIN submitted)
        /\ TileCountBefore(file, Cardinality(DOMAIN submitted)) = Cardinality(DOMAIN submitted)
        /\ \A hg \in HeaderGarbage, g \in Garbage :
               /\ OpenFile(file, GA_ReadOnly, hg, g).ok
               /\ OpenFile(file, GA_ReadOnly, hg, g).pos = Len(file) - 8
               /\ Cardinality(DOMAIN OpenFile(file, GA_ReadOnly, hg, g).tiles)
                      = Cardinality(DOMAIN submitted)

\* C12 witness: a session that wrote one key twice was closed, and the footer
\* counts one tile
C12_Witness ==
    /\ Sealed /\ lastOp.op = "Close"
    /\ \E k \in DOMAIN submitted : submitted[k].n = 2
    /\ TileCountBefore(file, 1) = 1

-----------------------------------------------------------------------------
(* State machine: CreateCopy *)

\* The source dataset of a copy: nBands bands of RasterSize by RasterSize
\* pixels in blocks of DFLT_TILESIZE, each with a pyramid of nOverviews
\* overviews, the k-th of the size divided by 2^k (rounded up), in blocks of
\* half the size.
SrcSizes(nOverviews) ==
    [k \in 1..nOverviews |->
        [xSize |-> (RasterSize + 2^k - 1) \div 2^k,
         ySize |-> (RasterSize + 2^k - 1) \div 2^k,
         tileSize |-> DFLT_TILESIZE \div 2]]

\* byte j of the source pixel (px, py) of a band object
SrcPixel(obj, px, py, j) == (obj[1] * 64 + obj[2] * 32 + py * 5 + px + j + 1) % 256

\* pSrc->RasterIO(GF_Read, nX, nY, nxsize, nysize, pData, ...) with the line
\* spacing of a whole block: the rest of pData is left as it was
RasterIO(pData, obj, nX, nY, nxsize, nysize, bsz, ts) ==
    [i \in 1..Len(pData) |->
        LET row == (i - 1) \div (bsz * ts)
            col == (i - 1) % (bsz * ts)
        IN  IF row < nysize /\ col < nxsize * ts
            THEN SrcPixel(obj, nX + col \div ts, nY + row, col % ts)
            ELSE pData[i]]

\* the copy loops run over the overview levels from the lowest up
CopyOrderAscending(nBands, nMaxOverview) ==
    Concat([k \in 1..(nMaxOverview + 1) |->
               [n \in 1..nBands |-> <<n, IF k <= nMaxOverview THEN k ELSE 0>>]], 1)

\* the band objects in the order CreateCopy copies them: the overview levels
\* from the highest down, every band at each, then the bands themselves
CopyOrder(nBands, nMaxOverview) ==
    Concat([k \in 1..(nMaxOverview + 1) |->
               [n \in 1..nBands |->
                   <<n, IF k <= nMaxOverview THEN nMaxOverview + 1 - k ELSE 0>>]], 1)

\* a fraction is a pair <<numerator, denominator>>; a double holds every
\* quotient of two ints of the model apart from every other
SameFraction(p, q) == p[1] * q[2] = q[1] * p[2]

\* a GetBandTotalTiles that rounds the block counts down
GetBandTotalTilesFloor(nXSize, nYSize, nBlockSize) ==
    (nXSize \div nBlockSize) * (nYSize \div nBlockSize)

\* GetBandTotalTiles: ceil(xsize / blocksize) * ceil(ysize / blocksize)
GetBandTotalTiles(nXSize, nYSize, nBlockSize) ==
    BlocksAlong(nXSize, nBlockSize) * BlocksAlong(nYSize, nBlockSize)

\* nTotalBlocks of CreateCopy: the tiles of every band and of each of its
\* overviews, with the block sizes the destination is given
RECURSIVE SumTiles(_, _, _)
SumTiles(h, bs, objs) ==
    IF objs = {} THEN 0
    ELSE LET o == CHOOSE o \in objs : TRUE
         IN  GetBandTotalTiles(ObjXSize(h, bs, o), ObjYSize(h, bs, o), ObjBlockSize(h, bs, o))
             + SumTiles(h, bs, objs \ {o})

\* CopyBand from its k-th block (row-major, from 0) on; c is the copy so far:
\* file, position, tile map, nDoneBlocks, the number of block buffers that
\* are allocated (heap) and the exit CopyBand took when it returned false
\* (why).  stop names the block, counted over the whole copy from 1, whose
\* RasterIO fails (read), whose WriteBlock fails (write), and the call of the
\* progress function that returns false (cancel); 0 for none.  CPLFree(pData)
\* is called at the end of the loops and when the progress function returns
\* false; the two other returns leave pData allocated.  c.calls lists the
\* fractions the progress function was called with, c.dLastFraction is the
\* last one of the CopyBand that runs.
RECURSIVE CopyBand(_, _, _, _, _, _, _)
RECURSIVE CopyBandBlock(_, _, _, _, _, _, _)
RECURSIVE CopyBandProgress(_, _, _, _, _, _, _, _)

CopyBand(c, h, bs, obj, k, pData, stop) ==
    IF k >= BlocksAlong(ObjXSize(h, bs, obj), ObjBlockSize(h, bs, obj))
            * BlocksAlong(ObjYSize(h, bs, obj), ObjBlockSize(h, bs, obj))
    THEN [ok |-> TRUE, c |-> [c EXCEPT !.heap = @ - 1]]
    ELSE IF stop.read = c.nDoneBlocks + 1
    THEN [ok |-> FALSE, c |-> [c EXCEPT !.why = "read"]]
    ELSE CopyBandBlock(c, h, bs, obj, k,
             RasterIO(pData, obj,
                 (k % BlocksAlong(ObjXSize(h, bs, obj), ObjBlockSize(h, bs, obj)))
                     * ObjBlockSize(h, bs, obj),
                 (k \div BlocksAlong(ObjXSize(h, bs, obj), ObjBlockSize(h, bs, obj)))
                     * ObjBlockSize(h, bs, obj),
                 ValidAlong(ObjXSize(h, bs, obj), ObjBlockSize(h, bs, obj),
                     k % BlocksAlong(ObjXSize(h, bs, obj), ObjBlockSize(h, bs, obj))),
                 ValidAlong(ObjYSize(h, bs, obj), ObjBlockSize(h, bs, obj),
                     k \div BlocksAlong(ObjXSize(h, bs, obj), ObjBlockSize(h, bs, obj))),
                 ObjBlockSize(h, bs, obj), typeSizeOf(h.m_eType)),
             stop)

CopyBandBlock(c, h, bs, obj, k, pData, stop) ==
    IF stop.write = c.nDoneBlocks + 1
    THEN [ok |-> FALSE, c |-> [c EXCEPT !.why = "write"]]
    ELSE
    CopyBandProgress(
        WriteBlock(c.file, c.pos, c.tiles, LevelOf(obj), bs[obj[1]].nBand, h.m_eType,
                   ObjBlockSize(h, bs, obj), ObjXSize(h, bs, obj), ObjYSize(h, bs, obj),
                   k % BlocksAlong(ObjXSize(h, bs, obj), ObjBlockSize(h, bs, obj)),
                   k \div BlocksAlong(ObjXSize(h, bs, obj), ObjBlockSize(h, bs, obj)),
                   pData),
        c, h, bs, obj, k, pData, stop)

CopyBandProgress(w, c, h, bs, obj, k, pData, stop) ==
    LET dFraction == <<c.nDoneBlocks + 1, c.nTotalBlocks>>
        d == [c EXCEPT !.file = w.file, !.pos = w.pos, !.tiles = w.tiles,
                       !.nDoneBlocks = c.nDoneBlocks + 1]
    IN  IF SameFraction(dFraction, c.dLastFraction)
        THEN CopyBand(d, h, bs, obj, k + 1, pData, stop)
        ELSE IF c.nDoneBlocks + 1 = stop.cancel
        THEN [ok |-> FALSE,
              c |-> [d EXCEPT !.heap = @ - 1, !.why = "cancel",
                              !.calls = Append(@, dFraction)]]
        ELSE CopyBand([d EXCEPT !.calls = Append(@, dFraction),
                                !.dLastFraction = dFraction],
                      h, bs, obj, k + 1, pData, stop)

\* the two band loops of CreateCopy, which stop when a CopyBand fails; each
\* CopyBand allocates its block buffer (CPLMalloc), which holds the byte g
RECURSIVE CopyBands(_, _, _, _, _, _, _)
RECURSIVE CopyBandsNext(_, _, _, _, _, _, _)

CopyBands(c, h, bs, objs, i, stop, g) ==
    IF i > Len(objs) THEN [ok |-> TRUE, c |-> c]
    ELSE CopyBandsNext(
             CopyBand([c EXCEPT !.heap = @ + 1, !.dLastFraction = <<-1, 1>>],
                      h, bs, objs[i], 0,
                      Fill(ObjBlockSize(h, bs, objs[i]) * ObjBlockSize(h, bs, objs[i])
                               * typeSizeOf(h.m_eType), g),
                      stop),
             h, bs, objs, i, stop, g)

CopyBandsNext(r, h, bs, objs, i, stop, g) ==
    IF r.ok THEN CopyBands(r.c, h, bs, objs, i + 1, stop, g) ELSE r

\* the number of blocks a copy of the source writes when it is not cancelled
SrcBlocks(nBands, nOverviews) ==
    nBands * Cardinality(
        {o \in (0..nOverviews) \X (0..RasterSize) \X (0..RasterSize) :
            /\ o[2] < BlocksAlong(IF o[1] = 0 THEN RasterSize
                                  ELSE SrcSizes(nOverviews)[o[1]].xSize,
                                  IF o[1] = 0 THEN DFLT_TILESIZE
                                  ELSE SrcSizes(nOverviews)[o[1]].tileSize)
            /\ o[3] < BlocksAlong(IF o[1] = 0 THEN RasterSize
                                  ELSE SrcSizes(nOverviews)[o[1]].ySize,
                                  IF o[1] = 0 THEN DFLT_TILESIZE
                                  ELSE SrcSizes(nOverviews)[o[1]].tileSize)})

\* the dataset CreateCopy returns after a copy c: the metadata of the source
\* is set on the bands and on the dataset
CopyReturned(c, h, bs, papszMetadata) ==
    /\ alive' = TRUE
    /\ file' = c.file
    /\ m_fp' = c.pos
    /\ m_tileOffsets' = c.tiles
    /\ hdr' = IF papszMetadata = <<>> THEN h
              ELSE [h EXCEPT !.m_papszMetadataList =
                       DatasetUpdateMetadataList(DatasetSetMetadata(@, papszMetadata, 1),
                                                 h.m_bCloudOptimised)]
    /\ bands' = IF papszMetadata = <<>> THEN bs
                ELSE [n \in 1..Len(bs) |->
                         UpdateMetadataList(SetMetadata(bs[n], papszMetadata, 1))]
    /\ lastOp' = [NoOp EXCEPT !.op = "CreateCopy", !.x = c.nDoneBlocks, !.pre = c.file,
                              !.out = <<c.heap, Cardinality(DOMAIN c.tiles), c.calls>>]

\* CreateCopy giving up after a copy c: delete pDS, and no dataset
CopyDropped(c, r, flushErr) ==
    /\ alive' = FALSE
    /\ file' = r.file
    /\ m_fp' = NULL
    /\ m_tileOffsets' = EmptyTiles
    /\ hdr' = NoHdr
    /\ bands' = <<>>
    /\ lastOp' = [NoOp EXCEPT !.op = "CreateCopy", !.x = c.nDoneBlocks, !.pre = c.file,
                              !.n = 1, !.y = flushErr, !.err = CE_Failure,
                              !.out = <<c.heap, Cardinality(DOMAIN c.tiles), c.calls>>,
                              !.msg = c.why]

\* the outcome of the copy loops r over the new dataset (h, bs)
CopyDone(r, h, bs, papszMetadata, flushErr) ==
    IF r.ok THEN CopyReturned(r.c, h, bs, papszMetadata)
    ELSE CopyDropped(r.c,
             DestructorClose(GA_Update, r.c.file, r.c.pos, h, bs, r.c.tiles, flushErr),
             flushErr)

\* the dataset CreateCopy makes before it copies
CopyStart(h, bs, f, papszMetadata, stop, flushErr, g) ==
    CopyDone(CopyBands([file |-> f, pos |-> Len(f), tiles |-> EmptyTiles, nDoneBlocks |-> 0,
                        heap |-> 0, why |-> "",
                        nTotalBlocks |-> SumTiles(h, bs, BandObjs(bs)),
                        calls |-> <<>>, dLastFraction |-> <<-1, 1>>],
                       h, bs, CopyOrder(Len(bs), Len(bs[1].ovs)), 1, stop, g),
             h, bs, papszMetadata, flushErr)

\* a copy that nothing stops, and one that only the progress function stops
NoStop == [read |-> 0, write |-> 0, cancel |-> 0]
Cancel(cancelAt) == [NoStop EXCEPT !.cancel = cancelAt]

\* EMUDataset::CreateCopy of the source into a new file
CreateCopy(nBands, eType, nOverviews, papszMetadata, stop, flushErr, g) ==
    /\ ~alive
    /\ file = <<>>
    /\ stop.read <= SrcBlocks(nBands, nOverviews)
    /\ stop.write <= SrcBlocks(nBands, nOverviews)
    /\ stop.cancel <= SrcBlocks(nBands, nOverviews)
    /\ CopyStart(NewDataset(eType, RasterSize, RasterSize, TRUE, DFLT_TILESIZE),
                 [n \in 1..nBands |->
                     CreateOverviewsFromSizes(NewBand(n, DFLT_TILESIZE), SrcSizes(nOverviews))],
                 Str.EMU \o <<CH_ZERO, CH_ZERO, CH_ZERO, CH_ZERO + EMU_VERSION>> \o U32(1),
                 papszMetadata, stop, flushErr, g)
    /\ eAccess' = IF stop = NoStop THEN GA_Update ELSE GA_ReadOnly
    /\ nOps' = 0
    /\ UNCHANGED <<m_mutex, threads, submitted, ratLog>>

\* the most bands and overviews of a source, and the most blocks a copy of
\* the model writes
MaxCopyBands == 2

MaxCopyOverviews == 2

MaxCopyBlocks == SrcBlocks(MaxCopyBands, MaxCopyOverviews)

\* a copy and what follows it: close or drop the dataset returned, open the
\* file, read blocks
NextCopy ==
    \/ \E nBands \in 1..MaxCopyBands, eType \in {GDT_Byte, GDT_UInt16},
          nOverviews \in 0..MaxCopyOverviews,
          papszMetadata \in {<<>>, <<Str.LAYER_TYPE \o <<CH_EQUALS>> \o Str.thematic>>},
          cancelAt \in 0..MaxCopyBlocks, flushErr \in {CE_None, CE_Failure}, g \in Garbage :
           CreateCopy(nBands, eType, nOverviews, papszMetadata, Cancel(cancelAt), flushErr, g)
    \/ Close(CE_None)
    \/ Destroy(CE_None)
    \/ \E hg \in HeaderGarbage, g \in Garbage : Open(GA_ReadOnly, hg, g)
    \/ \E obj \in BandObjs(bands), x, y \in 0..DFLT_TILESIZE, g \in Garbage :
           IReadBlock(obj, x, y, g)

SpecCopy == Init /\ [][NextCopy]_vars

\* the last call was a CreateCopy whose progress function returned false
CopyCancelled == lastOp.op = "CreateCopy" /\ lastOp.n = 1

CopyIndex == alive /\ lastOp.op \in {"CreateCopy", "Open"}

-----------------------------------------------------------------------------
(* State machine: a write session of blocks and table rows *)

\* the most I/O calls of such a session
MaxSessionOps == 4

\* IWriteBlock on band 1 for a block of its first block row
SessionBlock(x) ==
    /\ nOps < MaxSessionOps
    /\ BlockWritten(<<1, 0>>, x, 0, x + 1)

\* ValuesIO(int*) on column 0 of band 1, an Integer column, from row 0, while
\* the dataset is written
SessionInt(eRWFlag, iLength, g) ==
    /\ nOps < MaxSessionOps
    /\ eAccess = GA_Update
    /\ RatColumn(1, 0)
    /\ bands[1].m_rat.m_cols[1].colType = GFT_Integer
    /\ IntCalled(1, 0, eRWFlag, 0, iLength, 0, g)

\* ValuesIO(char**) on column 0 of band 1, a String column, from row 0, while
\* the dataset is written
SessionString(eRWFlag, iLength, g) ==
    /\ nOps < MaxSessionOps
    /\ eAccess = GA_Update
    /\ RatColumn(1, 0)
    /\ bands[1].m_rat.m_cols[1].colType = GFT_String
    /\ StringCalled(1, 0, eRWFlag, 0, iLength, <<>>, g)

\* a session that only writes: blocks and rows in any order, then Close or
\* the destructor, then Open
NextSeal ==
    \/ Create(1, GDT_Byte)
    \/ \E eFieldType \in {GFT_Integer, GFT_String} : CreateColumn(1, eFieldType)
    \/ SetRowCount(1, MaxRows)
    \/ \E x \in 0..1 : SessionBlock(x)
    \/ \E iLength \in {1, MAX_RAT_CHUNK + 1} : SessionInt(GF_Write, iLength, 0)
    \/ SessionString(GF_Write, MAX_RAT_CHUNK, 0)
    \/ Close(CE_None)
    \/ Destroy(CE_None)
    \/ \E hg \in HeaderGarbage, g \in Garbage : Open(GA_ReadOnly, hg, g)

SpecSeal == Init /\ [][NextSeal]_vars

\* C13: in every file a successful Close sealed, after any blocks and table
\* rows written, the last 8 bytes hold the offset of the "HDR\0" that begins
\* the footer, which is where the data written before Close ends
C13_TrailerPointsAtFooter ==
    Sealed =>
        /\ Len(file) >= Len(lastOp.pre) + 12
        /\ Take(file, Len(lastOp.pre)) = lastOp.pre
        /\ GetU64(SubSeq(file, Len(file) - 7, Len(file))) = Len(lastOp.pre)
        /\ SubSeq(file, Len(lastOp.pre) + 1, Len(lastOp.pre) + 4) = Str.HDR \o <<0>>

\* C13 witness: a session that wrote two blocks and rows of a column in two
\* chunks was closed
C13_Witness ==
    /\ Sealed
    /\ alive /\ Cardinality(DOMAIN m_tileOffsets) = 2
    /\ Len(bands[1].m_rat.m_cols) = 1
    /\ Len(bands[1].m_rat.m_cols[1].chunks) = 2
    /\ HasFooter(file)

\* a write session in which rows written are also read: ValuesIO reads a
\* dataset that is being written
NextSession ==
    \/ NextSeal
    \/ \E g \in Garbage : SessionInt(GF_Read, 1, g)

SpecSession == Init /\ [][NextSession]_vars

\* the tile index of a dataset that is being written, or as Open loaded it
TileIndexInUse == alive /\ (eAccess = GA_Update \/ lastOp.op = "Open")

\* C14: at every point of a write session, and in the tile index Open loads,
\* no two distinct keys have the same offset
C14_OffsetsDistinct ==
    TileIndexInUse =>
        \A k1, k2 \in DOMAIN m_tileOffsets :
            k1 # k2 => m_tileOffsets[k1].offset # m_tileOffsets[k2].offset

\* C15: for every entry of the tile index that Close writes to the footer,
\* offset is the position of the tile's compression byte and offset + 1 +
\* compressedSize lies strictly before the footer start that Close records
C15_TilesBeforeFooter ==
    (Sealed /\ lastOp.op = "Close") =>
        \A k \in DOMAIN m_tileOffsets :
            /\ ReadAt(file, m_tileOffsets[k].offset, 1, <<NULL>>) = <<COMPRESSION_ZLIB>>
            /\ m_tileOffsets[k].offset + 1 + m_tileOffsets[k].size
                   < GetU64(SubSeq(file, Len(file) - 7, Len(file)))

-----------------------------------------------------------------------------
(* State machine: threads in IWriteBlock.  Each thread calls IWriteBlock on *)
(* band 1 once, for a block no other thread writes, and runs it statement   *)
(* by statement; the file and its position, the tile index and the mutex    *)
(* are shared.                                                              *)

\* a lock_guard that does not wait for the holder
MutexFreeAlways(m) == TRUE

\* std::lock_guard on *m_mutex can be constructed: nobody holds the mutex
MutexFree(m) == m = NULL

\* what the call of thread t appends, and its index entry: the body of
\* IWriteBlock run on an empty file
ThreadRecord(t) ==
    WriteBlock(<<>>, 0, EmptyTiles, 0, bands[1].nBand, hdr.m_eType, bands[1].nBlockXSize,
               hdr.nRasterXSize, hdr.nRasterYSize, threads[t].x, threads[t].y,
               BlockData(threads[t].pat, bands[1].nBlockXSize, typeSizeOf(hdr.m_eType)))

\* the key of the call of thread t
ThreadKey(t) == <<0, bands[1].nBand, threads[t].x, threads[t].y>>

\* thread t calls IWriteBlock(x, y, pData)
ThreadCall(t, x, y, pat) ==
    /\ alive /\ eAccess = GA_Update /\ m_fp # NULL
    /\ threads[t].pc = "idle"
    /\ x < BlocksAlong(hdr.nRasterXSize, bands[1].nBlockXSize)
    /\ y < BlocksAlong(hdr.nRasterYSize, bands[1].nBlockXSize)
    /\ \A u \in Threads : threads[u].pc = "idle" \/ <<threads[u].x, threads[u].y>> # <<x, y>>
    /\ threads' = [threads EXCEPT ![t] = [IdleThread EXCEPT !.pc = "lock", !.x = x, !.y = y,
                                              !.pat = pat, !.waited = (m_mutex # NULL)]]
    /\ UNCHANGED <<file, alive, m_fp, eAccess, hdr, bands, m_tileOffsets, submitted,
                   ratLog, lastOp, nOps, m_mutex>>

\* const std::lock_guard<std::mutex> lock(*m_mutex)
ThreadLock(t) ==
    /\ threads[t].pc = "lock"
    /\ MutexFree(m_mutex)
    /\ m_mutex' = t
    /\ threads' = [threads EXCEPT ![t].pc = "tell"]
    /\ UNCHANGED <<file, alive, m_fp, eAccess, hdr, bands, m_tileOffsets, submitted,
                   ratLog, lastOp, nOps>>

\* vsi_l_offset tileOffset = VSIFTellL(poEMUDS->m_fp)
ThreadTell(t) ==
    /\ threads[t].pc = "tell"
    /\ threads' = [threads EXCEPT ![t].pc = "disc", ![t].tileOffset = m_fp]
    /\ UNCHANGED <<file, alive, m_fp, eAccess, hdr, bands, m_tileOffsets, submitted,
                   ratLog, lastOp, nOps, m_mutex>>

\* VSIFWriteL(&compression, sizeof(compression), 1, poEMUDS->m_fp)
ThreadWriteDisc(t) ==
    /\ threads[t].pc = "disc"
    /\ file' = WriteAt(file, m_fp, Take(ThreadRecord(t).file, 1))
    /\ m_fp' = m_fp + 1
    /\ threads' = [threads EXCEPT ![t].pc = "data", ![t].discAt = m_fp]
    /\ UNCHANGED <<alive, eAccess, hdr, bands, m_tileOffsets, submitted, ratLog, lastOp,
                   nOps, m_mutex>>

\* VSIFWriteL(pCompressed, compressedSize, 1, poEMUDS->m_fp)
ThreadWriteData(t) ==
    /\ threads[t].pc = "data"
    /\ file' = WriteAt(file, m_fp, Drop(ThreadRecord(t).file, 1))
    /\ m_fp' = m_fp + Len(ThreadRecord(t).file) - 1
    /\ threads' = [threads EXCEPT ![t].pc = "map", ![t].dataAt = m_fp]
    /\ UNCHANGED <<alive, eAccess, hdr, bands, m_tileOffsets, submitted, ratLog, lastOp,
                   nOps, m_mutex>>

\* setTileOffset and return, which ends the lock_guard
ThreadFinish(t) ==
    /\ threads[t].pc = "map"
    /\ m_tileOffsets' =
          setTileOffset(m_tileOffsets, 0, bands[1].nBand, threads[t].x, threads[t].y,
                        threads[t].tileOffset,
                        ThreadRecord(t).tiles[ThreadKey(t)].size,
                        ThreadRecord(t).tiles[ThreadKey(t)].uncompressedSize)
    /\ m_mutex' = NULL
    /\ threads' = [threads EXCEPT ![t].pc = "done"]
    /\ UNCHANGED <<file, alive, m_fp, eAccess, hdr, bands, submitted, ratLog, lastOp, nOps>>

NextThreads ==
    \/ \E eType \in {GDT_Byte, GDT_UInt16} : Create(1, eType)
    \/ \E t \in Threads, x, y \in 0..1, pat \in Patterns : ThreadCall(t, x, y, pat)
    \/ \E t \in Threads :
           \/ ThreadLock(t)
           \/ ThreadTell(t)
           \/ ThreadWriteDisc(t)
           \/ ThreadWriteData(t)
           \/ ThreadFinish(t)

SpecThreads == Init /\ [][NextThreads]_vars

\* where the record of a finished call of thread t lies in the file
ThreadRange(t) ==
    (threads[t].discAt + 1)..(threads[t].discAt + Len(ThreadRecord(t).file))

\* C16: when threads call IWriteBlock at the same time for different keys,
\* the offset recorded for each tile is the position where its own
\* compression byte was written, its compressed bytes follow that byte, and
\* the records of different tiles share no byte of the file
C16_WritesSerialised ==
    /\ \A t \in Threads :
           threads[t].pc = "done" =>
               /\ ThreadKey(t) \in DOMAIN m_tileOffsets
               /\ m_tileOffsets[ThreadKey(t)].offset = threads[t].discAt
               /\ threads[t].dataAt = threads[t].discAt + 1
               /\ ReadAt(file, threads[t].discAt, Len(ThreadRecord(t).file),
                         Fill(Len(ThreadRecord(t).file), NULL)) = ThreadRecord(t).file
    /\ \A t, u \in Threads :
           (t # u /\ threads[t].pc = "done" /\ threads[u].pc = "done")
               => ThreadRange(t) \cap ThreadRange(u) = {}

\* C16 witness: every thread has finished its call, and one of them made its
\* call while another thread held the mutex
C16_Witness ==
    /\ \A t \in Threads : threads[t].pc = "done"
    /\ \E t \in Threads : threads[t].waited
    /\ Cardinality(DOMAIN m_tileOffsets) = MaxThreads

-----------------------------------------------------------------------------
(* State machine: overview creation on a dataset of two bands *)

\* the decimation factor lists a caller passes
OverviewLists == {<<1>>, <<2>>, <<1, 2>>}

NextOverviews ==
    \/ \E eType \in {GDT_Byte, GDT_UInt16} : Create(2, eType)
    \/ \E l \in {<<1>>, <<2>>, <<1, 2>>, <<2, 1>>}, factors \in OverviewLists :
           IBuildOverviews(l, factors)
    \/ Close(CE_None)
    \/ Destroy(CE_None)
    \/ \E hg \in HeaderGarbage, g \in Garbage : Open(GA_ReadOnly, hg, g)

SpecOverviews == Init /\ [][NextOverviews]_vars

\* the places of the band list of an IBuildOverviews call whose band has
\* overviews before the call
AlreadySet(list) == {i \in 1..Len(list) : bands[list[i]].ovSet}

\* the first of them
FirstSet(list) == CHOOSE i \in AlreadySet(list) : \A j \in AlreadySet(list) : i <= j

\* C17: creating overviews for a band that has overviews fails with
\* "overviews already set" and leaves the band's overview descriptors as they
\* were; IBuildOverviews returns that failure at the first such band of its
\* list (the bands before it get their overviews, those after it are not
\* touched), and succeeds when the list has no such band
C17_OverviewsOnce ==
    [][lastOp'.op = "IBuildOverviews" =>
          /\ \A b \in 1..Len(bands) : bands[b].ovSet => bands'[b] = bands[b]
          /\ IF AlreadySet(lastOp'.pre) = {}
             THEN /\ lastOp'.err = CE_None
                  /\ \A i \in 1..Len(lastOp'.pre) : bands'[lastOp'.pre[i]].ovSet
             ELSE /\ lastOp'.err = CE_Failure
                  /\ lastOp'.msg = "overviews already set"
                  /\ \A i \in 1..Len(lastOp'.pre) :
                         IF i < FirstSet(lastOp'.pre)
                         THEN bands'[lastOp'.pre[i]].ovSet
                         ELSE bands'[lastOp'.pre[i]] = bands[lastOp'.pre[i]]]_vars

\* C17 witness: IBuildOverviews on bands 1 and 2 failed at band 2, which
\* keeps the overviews an earlier call gave it, after band 1 got its own
C17_Witness ==
    /\ lastOp.op = "IBuildOverviews" /\ lastOp.err = CE_Failure
    /\ lastOp.pre = <<1, 2>>
    /\ bands[1].ovSet /\ bands[2].ovSet
    /\ Len(bands[1].ovs) # Len(bands[2].ovs)

-----------------------------------------------------------------------------
(* Files that Open is handed: what a writer left, and what became of it on  *)
(* the way (another format version, another magic, a cut-off end, another   *)
(* trailing offset)                                                         *)

\* the first 7 bytes the driver writes: "EMU" and the version as 4 digits
\* (VSIFPrintfL(fp, "EMU%04d", EMU_VERSION))
MagicAndVersion == Str.EMU \o <<CH_ZERO, CH_ZERO, CH_ZERO, CH_ZERO + EMU_VERSION>>

\* the file is as a writing dataset left it when it was destroyed, sealed by
\* Close or not
LeftByWriter == ~alive /\ lastOp.op = "Destroy" /\ lastOp.y = GA_Update

\* the same file with the version digits of format version v
OtherVersion(v) ==
    /\ LeftByWriter
    /\ file' = WriteAt(file, 3, <<CH_ZERO, CH_ZERO, CH_ZERO, CH_ZERO + v>>)
    /\ lastOp' = [NoOp EXCEPT !.op = "OtherVersion", !.n = v, !.pre = file]
    /\ UNCHANGED <<m_mutex, threads, alive, m_fp, eAccess, hdr, bands, m_tileOffsets,
                   submitted, ratLog, nOps>>

\* the same file with another first byte
OtherMagic(c) ==
    /\ LeftByWriter
    /\ file' = WriteAt(file, 0, <<c>>)
    /\ lastOp' = [NoOp EXCEPT !.op = "OtherMagic", !.n = c, !.pre = file]
    /\ UNCHANGED <<m_mutex, threads, alive, m_fp, eAccess, hdr, bands, m_tileOffsets,
                   submitted, ratLog, nOps>>

\* the same file without its last n bytes
Truncate(n) ==
    /\ LeftByWriter
    /\ Len(file) - n >= 11
    /\ file' = Take(file, Len(file) - n)
    /\ lastOp' = [NoOp EXCEPT !.op = "Truncate", !.n = n, !.pre = file]
    /\ UNCHANGED <<m_mutex, threads, alive, m_fp, eAccess, hdr, bands, m_tileOffsets,
                   submitted, ratLog, nOps>>

\* the same file with the trailing offset moved by d bytes
MoveTrailer(d) ==
    /\ LeftByWriter
    /\ Len(file) >= 19
    /\ GetU64(SubSeq(file, Len(file) - 7, Len(file))) + d >= 0
    /\ file' = WriteAt(file, Len(file) - 8,
                       U64(GetU64(SubSeq(file, Len(file) - 7, Len(file))) + d))
    /\ lastOp' = [NoOp EXCEPT !.op = "MoveTrailer", !.n = d, !.pre = file]
    /\ UNCHANGED <<m_mutex, threads, alive, m_fp, eAccess, hdr, bands, m_tileOffsets,
                   submitted, ratLog, nOps>>

\* a writer's session ended by Close or by the destructor, the file as it
\* reaches the reader, and Open
NextFiles ==
    \/ \E eType \in {GDT_Byte, GDT_UInt16} : Create(1, eType)
    \/ \E x \in 0..1 : SessionBlock(x)
    \/ \E flushErr \in {CE_None, CE_Failure} : Close(flushErr)
    \/ \E flushErr \in {CE_None, CE_Failure} : Destroy(flushErr)
    \/ \E v \in {0, EMU_VERSION + 1} : OtherVersion(v)
    \/ OtherMagic(CH_EQUALS)
    \/ \E n \in {4, 8} : Truncate(n)
    \/ \E d \in {0 - 1, 1, ParseLimit} : MoveTrailer(d)
    \/ \E hg \in HeaderGarbage, g \in Garbage : Open(GA_ReadOnly, hg, g)

SpecFiles == Init /\ [][NextFiles]_vars

\* C18: Open fails for every file whose first 7 bytes are not "EMU" and the
\* four digits of the supported version; a file with the magic and another
\* version number is refused
C18_VersionChecked ==
    (lastOp.op = "Open" /\ Take(lastOp.pre, 7) # MagicAndVersion)
        => lastOp.err = CE_Failure

\* the u64 in the last 8 bytes of the file is the position, inside the file,
\* of the 4 bytes "HDR\0"
PointsAtFooter(f) ==
    /\ Len(f) >= 8
    /\ GetU64(SubSeq(f, Len(f) - 7, Len(f))) + 4 <= Len(f)
    /\ ReadAt(f, GetU64(SubSeq(f, Len(f) - 7, Len(f))), 4, Fill(4, 0)) = Str.HDR \o <<0>>

\* C19: Open fails for every file whose trailing u64 does not point, inside
\* the file, at "HDR\0": a file never sealed, a file cut short by 4 bytes, a
\* trailing offset past the end
C19_FooterChecked ==
    (lastOp.op = "Open" /\ ~PointsAtFooter(lastOp.pre)) => lastOp.err = CE_Failure

-----------------------------------------------------------------------------
(* The chunks of one ValuesIO write, checked under SpecRat *)

\* the bytes a column of type colType stores for the buffer element v
RowPayload(colType, v) ==
    IF colType = GFT_String THEN v \o <<0>>
    ELSE IF colType = GFT_Real THEN DoubleBytes(v)
    ELSE U64(v)

\* what the record of chunk ch in file f decompresses to, nSize bytes
ChunkHolds(f, ch, nSize) ==
    IF ch.offset + 1 + ch.compressedSize > Len(f) THEN <<>>
    ELSE doUncompression(f[ch.offset + 1],
                         SubSeq(f, ch.offset + 2, ch.offset + 1 + ch.compressedSize),
                         Fill(nSize, 0))

\* the chunks a write of rows [s, s + n) from buffer buf added to a column
\* that had nOld chunks: ceil(n / MAX_RAT_CHUNK) of them, the j-th for the
\* rows from s + (j - 1) * MAX_RAT_CHUNK on, none longer than MAX_RAT_CHUNK,
\* each holding the buffer elements of its rows
ChunksOfWrite(f, col, nOld, s, n, buf) ==
    /\ Len(col.chunks) = nOld + ((n + MAX_RAT_CHUNK - 1) \div MAX_RAT_CHUNK)
    /\ \A j \in 1..(Len(col.chunks) - nOld) :
          LET ch == col.chunks[nOld + j]
              first == (j - 1) * MAX_RAT_CHUNK
              raw == Concat([i \in 1..ch.length |->
                                RowPayload(col.colType, buf[first + i])], 1)
          IN  /\ ch.startIdx = s + first
              /\ ch.length = Min(MAX_RAT_CHUNK, n - first)
              /\ ch.length >= 1 /\ ch.length <= MAX_RAT_CHUNK
              /\ ChunkHolds(f, ch, Len(raw)) = raw

\* the step is a ValuesIO write that succeeded, of rows the table has
RowsWritten ==
    /\ lastOp'.op \in {"ValuesIO_int", "ValuesIO_double", "ValuesIO_string"}
    /\ lastOp'.y = GF_Write
    /\ lastOp'.err = CE_None
    /\ lastOp'.x + lastOp'.n <= bands[lastOp'.obj[1]].m_rat.m_nRowCount

\* C20: a ValuesIO write of n rows from row s, within the row count, appends
\* exactly ceil(n / MAX_RAT_CHUNK) chunks to the column, each of at most
\* MAX_RAT_CHUNK rows, consecutive from s and covering [s, s + n), each
\* holding the caller's values of its rows; the chunks that were there stay
C20_WriteChunked ==
    [][RowsWritten =>
          LET b == lastOp'.obj[1]
              c == lastOp'.obj[2] + 1
              old == bands[b].m_rat.m_cols[c].chunks
          IN  /\ SubSeq(bands'[b].m_rat.m_cols[c].chunks, 1, Len(old)) = old
              /\ ChunksOfWrite(file', bands'[b].m_rat.m_cols[c], Len(old),
                               lastOp'.x, lastOp'.n, lastOp'.pre)]_vars

\* a write of MAX_RAT_CHUNK + 1 rows has left two chunks behind one that was
\* there, the second of one row; and a write of MAX_RAT_CHUNK rows one chunk
C20_Witness ==
    /\ alive /\ eAccess = GA_Update
    /\ lastOp.op \in {"ValuesIO_int", "ValuesIO_double", "ValuesIO_string"}
    /\ lastOp.y = GF_Write /\ lastOp.err = CE_None
    /\ lastOp.n = MAX_RAT_CHUNK + 1
    /\ lastOp.x > 0
    /\ lastOp.x + lastOp.n <= bands[lastOp.obj[1]].m_rat.m_nRowCount
    /\ Len(LastColumn.chunks) = 3
    /\ LastColumn.chunks[1].length = MAX_RAT_CHUNK
    /\ LastColumn.chunks[2].length = MAX_RAT_CHUNK
    /\ LastColumn.chunks[3].length = 1
    /\ LastColumn.chunks[3].startIdx = lastOp.x + MAX_RAT_CHUNK

-----------------------------------------------------------------------------
(* Row counts and row ranges: SetRowCount with any count at any time, and   *)
(* writes that start or end anywhere, past the row count too                *)

\* the ValuesIO calls of one such session
MaxRowOps == 2

\* a write of iLength rows from iStartRow to column 0 of band 1 through the
\* buffer type of the column
RowsWrite(iStartRow, iLength) ==
    /\ nOps < MaxRowOps
    /\ eAccess = GA_Update
    /\ RatColumn(1, 0)
    /\ \/ /\ bands[1].m_rat.m_cols[1].colType = GFT_Integer
          /\ IntCalled(1, 0, GF_Write, iStartRow, iLength, 0, 0)
       \/ /\ bands[1].m_rat.m_cols[1].colType = GFT_String
          /\ StringCalled(1, 0, GF_Write, iStartRow, iLength, <<>>, 0)

NextRows ==
    \/ Create(1, GDT_Byte)
    \/ \E eFieldType \in {GFT_Integer, GFT_String} : CreateColumn(1, eFieldType)
    \/ \E iCount \in 0..MaxRows : RowCountSet(1, iCount)
    \/ \E iStartRow \in 0..MaxRows, iLength \in 1..(MAX_RAT_CHUNK + 1) :
           RowsWrite(iStartRow, iLength)
    \/ Close(CE_None)
    \/ Destroy(CE_None)
    \/ \E hg \in HeaderGarbage, g \in Garbage : Open(GA_ReadOnly, hg, g)

SpecRows == Init /\ [][NextRows]_vars

\* every chunk of every column of every table ends within the row count
ChunksWithinRows(bs) ==
    \A b \in 1..Len(bs) : \A c \in 1..Len(bs[b].m_rat.m_cols) :
        \A n \in 1..Len(bs[b].m_rat.m_cols[c].chunks) :
            bs[b].m_rat.m_cols[c].chunks[n].startIdx
                + bs[b].m_rat.m_cols[c].chunks[n].length <= bs[b].m_rat.m_nRowCount

\* the step is a SetRowCount or ValuesIO call on the table of a band
RowCall ==
    lastOp'.op \in {"SetRowCount", "ValuesIO_int", "ValuesIO_double", "ValuesIO_string"}

\* C21: over SetRowCount and ValuesIO calls the row count never decreases and
\* every chunk recorded satisfies startIdx + length <= row count; a write
\* that runs past the row count is cut to it and one that starts at or past
\* it records no chunk
C21_RowsBounded ==
    [][RowCall =>
          LET b == lastOp'.obj[1]
              old == bands[b].m_rat
              new == bands'[b].m_rat
          IN  /\ new.m_nRowCount >= old.m_nRowCount
              /\ ChunksWithinRows(bands')
              /\ (lastOp'.op # "SetRowCount" /\ lastOp'.x >= old.m_nRowCount)
                    => new.m_cols = old.m_cols]_vars

\* a lower count was given to SetRowCount after rows were written up to the
\* row count by a write that asked for more
C21_Witness ==
    /\ alive /\ eAccess = GA_Update
    /\ lastOp.op = "SetRowCount"
    /\ lastOp.n < bands[1].m_rat.m_nRowCount
    /\ Len(bands[1].m_rat.m_cols) = 1
    /\ \E n \in 1..Len(bands[1].m_rat.m_cols[1].chunks) :
          /\ bands[1].m_rat.m_cols[1].chunks[n].startIdx > 0
          /\ bands[1].m_rat.m_cols[1].chunks[n].length = 1
          /\ bands[1].m_rat.m_cols[1].chunks[n].startIdx + 1 = bands[1].m_rat.m_nRowCount

-----------------------------------------------------------------------------
(* The metadata codec on its own: a list is encoded, the blob is decoded    *)

\* the entries a list may hold
MaxMetaLen == 3

\* "KEY=VALUE" strings: plain ones, an empty value, a value with '=', an
\* empty key, two keys that differ in case only, and reserved keys
MetaEntries ==
    {<<65, CH_EQUALS, 49>>, <<97, CH_EQUALS, 50>>, <<66, CH_EQUALS>>,
     <<67, CH_EQUALS, 120, CH_EQUALS, 121>>, <<CH_EQUALS, 118>>,
     Str.STATISTICS_MEAN \o <<CH_EQUALS, 50>>,
     Str.CLOUD_OPTIMISED \o <<CH_EQUALS>> \o Str.TRUE_STR}

\* the lists of at most MaxMetaLen entries in which no key occurs twice
MetaLists ==
    {L \in UNION {[1..n -> MetaEntries] : n \in 0..MaxMetaLen} :
        \A i, j \in 1..Len(L) : i < j => KeyOf(L[i]) # KeyOf(L[j])}

\* doCompressMetadata(type, L, &nInputSize, &nOutputSize)
MetaEncode(type, L) ==
    /\ ~alive
    /\ lastOp' = [NoOp EXCEPT !.op = "doCompressMetadata", !.y = type, !.pre = L,
                              !.n = doCompressMetadata(type, L).nInputSize,
                              !.out = doCompressMetadata(type, L).out]
    /\ UNCHANGED <<m_mutex, threads, file, alive, m_fp, eAccess, hdr, bands,
                   m_tileOffsets, submitted, ratLog, nOps>>

\* doUncompressMetadata on the blob of the call before, as the readers call
\* it: only when the size stored with the blob is not 0
MetaDecode ==
    /\ lastOp.op = "doCompressMetadata"
    /\ lastOp.n > 0
    /\ lastOp' = [lastOp EXCEPT !.op = "doUncompressMetadata",
                                !.out = doUncompressMetadata(lastOp.y, lastOp.out, lastOp.n)]
    /\ UNCHANGED <<m_mutex, threads, file, alive, m_fp, eAccess, hdr, bands,
                   m_tileOffsets, submitted, ratLog, nOps>>

NextMeta ==
    \/ \E type \in {COMPRESSION_NONE, COMPRESSION_ZLIB}, L \in MetaLists : MetaEncode(type, L)
    \/ MetaDecode

SpecMeta == Init /\ [][NextMeta]_vars

\* the entries of a list whose key is not reserved, in their order
NotReserved(L) == SelectSeq(L, LAMBDA e : KeyOf(e) \notin specialKeys)

\* C22: for every list of KEY=VALUE strings with unique keys, decoding the
\* encoder's blob gives the entries whose key is not reserved, in the same
\* order with the same values; when every entry is reserved the encoder
\* reports input size 0 and no payload
C22_MetadataRoundTrip ==
    /\ lastOp.op = "doUncompressMetadata" => lastOp.out = NotReserved(lastOp.pre)
    /\ (lastOp.op = "doCompressMetadata" /\ NotReserved(lastOp.pre) = <<>>)
          => (lastOp.n = 0 /\ lastOp.out = <<>>)

-----------------------------------------------------------------------------
(* Overview descriptors through Close and Open: overviews made by factors   *)
(* (IBuildOverviews) and by explicit sizes (as CreateCopy makes them)       *)

\* the tile sizes of overviews given by explicit sizes
TileSizes == {1, DFLT_TILESIZE, 65535, 65536, 65536 + DFLT_TILESIZE}

\* EMURasterBand::CreateOverviews(sizes) on band b of a dataset being
\* written: nLevels overviews of tile size tileSize, the k-th of the raster
\* size divided by 2^k
OverviewsFromSizes(b, nLevels, tileSize) ==
    /\ alive /\ eAccess = GA_Update /\ m_fp # NULL
    /\ nOps = 0
    /\ b \in 1..Len(bands)
    /\ ~bands[b].ovSet
    /\ bands' = [bands EXCEPT ![b] =
                    CreateOverviewsFromSizes(@,
                        [k \in 1..nLevels |->
                            [xSize |-> (hdr.nRasterXSize + 2^k - 1) \div 2^k,
                             ySize |-> (hdr.nRasterYSize + 2^k - 1) \div 2^k,
                             tileSize |-> tileSize]])]
    /\ lastOp' = [NoOp EXCEPT !.op = "CreateOverviews", !.obj = <<b, 0>>, !.n = nLevels,
                              !.x = tileSize]
    /\ UNCHANGED <<m_mutex, threads, file, alive, m_fp, eAccess, hdr, m_tileOffsets,
                   submitted, ratLog, nOps>>

NextDescriptors ==
    \/ \E nBands \in 1..2, eType \in {GDT_Byte, GDT_UInt16} : Create(nBands, eType)
    \/ \E l \in OverviewLists, factors \in {<<2>>, <<1, 2>>} : IBuildOverviews(l, factors)
    \/ \E b \in 1..2, nLevels \in 1..2, tileSize \in TileSizes :
           OverviewsFromSizes(b, nLevels, tileSize)
    \/ Close(CE_None)
    \/ Destroy(CE_None)
    \/ \E hg \in HeaderGarbage, g \in Garbage : Open(GA_ReadOnly, hg, g)

SpecDescriptors == Init /\ [][NextDescriptors]_vars

\* the step opens the file a writing dataset sealed; lastOp.out holds the
\* bands of that dataset as they were when it was destroyed
Reopened ==
    /\ lastOp.op = "Destroy" /\ lastOp.y = GA_Update /\ lastOp.err = CE_None
    /\ lastOp'.op = "Open" /\ lastOp'.err = CE_None

\* C23: after Close and re-Open every band reports the overview count it had
\* and, for each overview, the (xSize, ySize, tileSize) it was created with,
\* for every tile size the creation call accepts
C23_DescriptorsRoundTrip ==
    [][Reopened =>
          /\ Len(bands') = Len(lastOp.out)
          /\ \A b \in 1..Len(lastOp.out) : bands'[b].ovs = lastOp.out[b].ovs]_vars

-----------------------------------------------------------------------------
(* Reads of rows that no chunk covers, checked under SpecRat *)

\* the last call was a ValuesIO read that returned CE_None, of rows the table has
RowsRead ==
    /\ alive
    /\ lastOp.op \in {"ValuesIO_int", "ValuesIO_double", "ValuesIO_string"}
    /\ lastOp.y = GF_Read
    /\ lastOp.err = CE_None
    /\ lastOp.x + lastOp.n <= bands[lastOp.obj[1]].m_rat.m_nRowCount

\* C24: a read of rows [s, s + n) from a column in which no chunk has
\* startIdx <= s (a column without chunks too) fills each of the n slots
\* with the default: 0 in a numeric buffer, the empty string in a string one
C24_DefaultsWithoutChunk ==
    (RowsRead /\ StartChunk(LastColumn.chunks, lastOp.x) = 0)
        => \A i \in 1..lastOp.n :
              lastOp.out[i] = IF lastOp.op = "ValuesIO_string" THEN <<>> ELSE 0

-----------------------------------------------------------------------------
(* Reads through the other numeric buffer type, checked under SpecRat *)

\* what a read of the last call's rows through an Integer buffer that held
\* the same values can return
SameReadAsInt ==
    {ValuesIO_int(bands[lastOp.obj[1]].m_rat, eAccess, file, m_fp, GF_Read,
                  lastOp.obj[2], lastOp.x, lastOp.n, lastOp.pre, g).out : g \in Garbage}

\* and through a Real buffer
SameReadAsReal ==
    {ValuesIO_real(bands[lastOp.obj[1]].m_rat, eAccess, file, m_fp, GF_Read,
                   lastOp.obj[2], lastOp.x, lastOp.n, lastOp.pre, g).out : g \in Garbage}

\* C25: a successful read of an Integer column through a double buffer
\* returns in each slot what a read through an int buffer returns for the
\* row, and a read of a Real column through an int buffer the truncated Real
\* value of the row (the Real values of the model are whole numbers)
C25_ConversionOnRead ==
    /\ (RowsRead /\ lastOp.op = "ValuesIO_double" /\ LastColumn.colType = GFT_Integer)
          => lastOp.out \in SameReadAsInt
    /\ (RowsRead /\ lastOp.op = "ValuesIO_int" /\ LastColumn.colType = GFT_Real)
          => lastOp.out \in SameReadAsReal

-----------------------------------------------------------------------------
(* Calls with a buffer of the wrong kind, checked under SpecRat *)

\* the step is a ValuesIO call with a numeric buffer on a String column or
\* with a string buffer on an Integer or Real column
WrongBuffer ==
    /\ lastOp'.op \in {"ValuesIO_int", "ValuesIO_double", "ValuesIO_string"}
    /\ (lastOp'.op = "ValuesIO_string")
          # (bands[lastOp'.obj[1]].m_rat.m_cols[lastOp'.obj[2] + 1].colType = GFT_String)

\* C26: such a call fails, for reads and for writes, and leaves the chunk
\* lists, the row count and the file position as they were
C26_TypeMismatch ==
    [][WrongBuffer =>
          /\ lastOp'.err = CE_Failure
          /\ lastOp'.msg \in {"CPLE_FileIO", "CPLE_NotSupported"}
          /\ bands' = bands
          /\ m_fp' = m_fp
          /\ file' = file]_vars

\* a string buffer was refused for a write to a numeric column that has a
\* chunk, in a dataset being written
C26_Witness ==
    /\ alive /\ eAccess = GA_Update
    /\ lastOp.op = "ValuesIO_string" /\ lastOp.y = GF_Write
    /\ lastOp.err = CE_Failure
    /\ LastColumn.colType \in {GFT_Integer, GFT_Real}
    /\ Len(LastColumn.chunks) = 1
    /\ lastOp.x < bands[lastOp.obj[1]].m_rat.m_nRowCount

-----------------------------------------------------------------------------
(* Column indices: ValuesIO and the column accessors with any index *)

\* the test of a column index that opens ValuesIO and the accessors:
\* (iField < 0) || (iField > m_cols.size())
IndexRejected(rat, iField) == iField < 0 \/ iField > Len(rat.m_cols)

\* what m_cols[m_cols.size()] may be read as: the memory after the last
\* element of the vector, here a column without chunks of either kind
ColumnsPastEnd ==
    {[sName |-> <<>>, colType |-> t, chunks |-> <<>>] : t \in {GFT_Integer, GFT_String}}

\* the table as m_cols[iField] sees it when iField passed the test
Indexed(rat, iField, past) ==
    IF iField = Len(rat.m_cols) THEN [rat EXCEPT !.m_cols = Append(@, past)] ELSE rat

\* the table after a call; what a call stored past the end of the vector is
\* not part of it
Unindexed(rat, r) ==
    [r EXCEPT !.rat = [r.rat EXCEPT !.m_cols = SubSeq(@, 1, Len(rat.m_cols))]]

\* EMURat::ValuesIO(int*) from its first statement
ValuesIO_intAt(rat, access, f, pos, eRWFlag, iField, iStartRow, iLength, pnData, g, past) ==
    IF IndexRejected(rat, iField)
    THEN RatResult(CE_Failure, "CPLE_FileIO", f, pos, rat, pnData, FALSE)
    ELSE Unindexed(rat, ValuesIO_int(Indexed(rat, iField, past), access, f, pos, eRWFlag,
                                     iField, iStartRow, iLength, pnData, g))

\* EMURat::ValuesIO(char**) from its first statement
ValuesIO_stringAt(rat, access, f, pos, eRWFlag, iField, iStartRow, iLength, papszStrList, g, past) ==
    IF IndexRejected(rat, iField)
    THEN RatResult(CE_Failure, "CPLE_FileIO", f, pos, rat, papszStrList, FALSE)
    ELSE Unindexed(rat, ValuesIO_string(Indexed(rat, iField, past), access, f, pos, eRWFlag,
                                        iField, iStartRow, iLength, papszStrList, g))

\* the usage EMURat::GetUsageOfCol derives from a column name ("Histogram",
\* "Name", "Red", "Green", "Blue", "Alpha")
UsageOfName(sName) ==
    CASE sName = <<72, 105, 115, 116, 111, 103, 114, 97, 109>> -> "GFU_PixelCount"
      [] sName = <<78, 97, 109, 101>> -> "GFU_Name"
      [] sName = <<82, 101, 100>> -> "GFU_Red"
      [] sName = <<71, 114, 101, 101, 110>> -> "GFU_Green"
      [] sName = <<66, 108, 117, 101>> -> "GFU_Blue"
      [] sName = <<65, 108, 112, 104, 97>> -> "GFU_Alpha"
      [] OTHER -> "GFU_Generic"

\* EMURat::GetNameOfCol, GetTypeOfCol, GetUsageOfCol: the value returned, and
\* whether m_cols[nCol] was read
GetNameOfCol(rat, nCol, past) ==
    IF IndexRejected(rat, nCol) THEN [value |-> NULL, accessed |-> FALSE]
    ELSE [value |-> Indexed(rat, nCol, past).m_cols[nCol + 1].sName, accessed |-> TRUE]

GetTypeOfCol(rat, nCol, past) ==
    IF IndexRejected(rat, nCol) THEN [value |-> GFT_Integer, accessed |-> FALSE]
    ELSE [value |-> Indexed(rat, nCol, past).m_cols[nCol + 1].colType, accessed |-> TRUE]

GetUsageOfCol(rat, nCol, past) ==
    IF IndexRejected(rat, nCol) THEN [value |-> "GFU_Generic", accessed |-> FALSE]
    ELSE [value |-> UsageOfName(Indexed(rat, nCol, past).m_cols[nCol + 1].sName),
          accessed |-> TRUE]

\* a ValuesIO call of one row from row 0 on column iField of band 1
ColumnIO(bString, iField, eRWFlag, past) ==
    /\ alive /\ m_fp # NULL
    /\ nOps < MaxOps
    /\ LET buf == RatBuffer(eRWFlag, 0, 1, IF bString THEN <<>> ELSE 0, bString)
       IN  IF bString
           THEN RatCalled("ValuesIO_string", 1, iField, eRWFlag, 0, 1, buf,
                          ValuesIO_stringAt(bands[1].m_rat, eAccess, file, m_fp, eRWFlag,
                                            iField, 0, 1, buf, 0, past))
           ELSE RatCalled("ValuesIO_int", 1, iField, eRWFlag, 0, 1, buf,
                          ValuesIO_intAt(bands[1].m_rat, eAccess, file, m_fp, eRWFlag,
                                         iField, 0, 1, buf, 0, past))

\* a call of one of the accessors on the table of band 1
ColumnAccessor(op, nCol, past) ==
    /\ alive
    /\ LET r == CASE op = "GetNameOfCol" -> GetNameOfCol(bands[1].m_rat, nCol, past)
                  [] op = "GetTypeOfCol" -> GetTypeOfCol(bands[1].m_rat, nCol, past)
                  [] op = "GetUsageOfCol" -> GetUsageOfCol(bands[1].m_rat, nCol, past)
       IN  lastOp' = [NoOp EXCEPT !.op = op, !.obj = <<1, nCol>>, !.out = r.value,
                                  !.lk = r.accessed]
    /\ UNCHANGED <<m_mutex, threads, file, alive, m_fp, eAccess, hdr, bands,
                   m_tileOffsets, submitted, ratLog, nOps>>

NextColumns ==
    \/ Create(1, GDT_Byte)
    \/ \E eFieldType \in {GFT_Integer, GFT_Real, GFT_String} : CreateColumn(1, eFieldType)
    \/ SetRowCount(1, MaxRows)
    \/ \E bString \in BOOLEAN, iField \in (0 - 1)..(MaxCols + 1),
          eRWFlag \in {GF_Read, GF_Write}, past \in ColumnsPastEnd :
           ColumnIO(bString, iField, eRWFlag, past)
    \/ \E op \in {"GetNameOfCol", "GetTypeOfCol", "GetUsageOfCol"},
          nCol \in (0 - 1)..(MaxCols + 1), past \in ColumnsPastEnd :
           ColumnAccessor(op, nCol, past)
    \/ Close(CE_None)
    \/ Destroy(CE_None)
    \/ \E hg \in HeaderGarbage, g \in Garbage : Open(GA_ReadOnly, hg, g)

SpecColumns == Init /\ [][NextColumns]_vars

\* the step is a ValuesIO call or an accessor call whose column index is
\* not in [0, columnCount)
IndexOutside ==
    /\ lastOp'.op \in {"ValuesIO_int", "ValuesIO_string",
                       "GetNameOfCol", "GetTypeOfCol", "GetUsageOfCol"}
    /\ \/ lastOp'.obj[2] < 0
       \/ lastOp'.obj[2] >= Len(bands[1].m_rat.m_cols)

\* C27: a call with such an index, the index equal to columnCount too, is
\* rejected before any column is accessed: ValuesIO fails and changes
\* nothing, an accessor returns its fallback value
C27_IndexChecked ==
    [][IndexOutside =>
          IF lastOp'.op \in {"ValuesIO_int", "ValuesIO_string"}
          THEN /\ lastOp'.err = CE_Failure
               /\ file' = file /\ m_fp' = m_fp /\ bands' = bands
          ELSE /\ ~lastOp'.lk
               /\ lastOp'.out = CASE lastOp'.op = "GetNameOfCol" -> NULL
                                  [] lastOp'.op = "GetTypeOfCol" -> GFT_Integer
                                  [] lastOp'.op = "GetUsageOfCol" -> "GFU_Generic"]_vars


-----------------------------------------------------------------------------
(* Statistics keys: metadata assigned to a band of a dataset open for writing *)

\* EQUAL: two strings compared without regard to case
EQUAL(a, b) ==
    /\ Len(a) = Len(b)
    /\ \A i \in 1..Len(a) : ToUpper(a[i]) = ToUpper(b[i])

\* the keys of the four statistics Close writes as doubles, with their fields
StatisticsKeys ==
    {Str.STATISTICS_MINIMUM, Str.STATISTICS_MAXIMUM, Str.STATISTICS_MEAN,
     Str.STATISTICS_STDDEV}

StatisticsField(b, key) ==
    CASE key = Str.STATISTICS_MINIMUM -> b.m_dMin
      [] key = Str.STATISTICS_MAXIMUM -> b.m_dMax
      [] key = Str.STATISTICS_MEAN -> b.m_dMean
      [] key = Str.STATISTICS_STDDEV -> b.m_dStdDev

\* the names and values the calls below are given: "1", "2", the two layer types
ItemNames == StatisticsKeys \cup {Str.LAYER_TYPE, Str.STATISTICS_MEDIAN}
ItemValues == {<<CH_ZERO + 1>>, <<CH_ZERO + 2>>, Str.athematic, Str.thematic}

\* the number a value reads as (CPLAtof), for the values above
Atof(v) == IF v[1] > CH_ZERO /\ v[1] <= CH_ZERO + 9 THEN v[1] - CH_ZERO ELSE 0

\* a SetMetadataItem that takes the statistics keys and stores the number
SetMetadataItemStatistics(b, access, pszName, pszValue) ==
    IF access # GA_Update THEN [err |-> CE_Failure, band |-> b]
    ELSE IF EQUAL(pszName, Str.LAYER_TYPE)
    THEN [err |-> CE_None, band |-> UpdateMetadataList([b EXCEPT !.m_bThematic = FALSE])]
    ELSE IF pszName \in StatisticsKeys
    THEN [err |-> CE_None,
          band |-> UpdateMetadataList(
              CASE pszName = Str.STATISTICS_MINIMUM -> [b EXCEPT !.m_dMin = Atof(pszValue)]
                [] pszName = Str.STATISTICS_MAXIMUM -> [b EXCEPT !.m_dMax = Atof(pszValue)]
                [] pszName = Str.STATISTICS_MEAN -> [b EXCEPT !.m_dMean = Atof(pszValue)]
                [] pszName = Str.STATISTICS_STDDEV -> [b EXCEPT !.m_dStdDev = Atof(pszValue)])]
    ELSE [err |-> CE_Failure, band |-> b]

\* EMURasterBand::SetMetadataItem: the error it returns and the band it leaves.
\* LAYER_TYPE clears m_bThematic whatever the value; every other name fails
SetMetadataItem(b, access, pszName, pszValue) ==
    IF access # GA_Update THEN [err |-> CE_Failure, band |-> b]
    ELSE IF EQUAL(pszName, Str.LAYER_TYPE)
    THEN [err |-> CE_None,
          band |-> UpdateMetadataList(
                       [b EXCEPT !.m_bThematic =
                            IF EQUAL(pszValue, Str.athematic) THEN FALSE ELSE FALSE])]
    ELSE [err |-> CE_Failure, band |-> b]

\* band b: SetMetadataItem(pszName, pszValue)
BandSetMetadataItem(b, pszName, pszValue) ==
    /\ alive
    /\ b \in 1..Len(bands)
    /\ LET r == SetMetadataItem(bands[b], eAccess, pszName, pszValue)
       IN  /\ bands' = [bands EXCEPT ![b] = r.band]
           /\ lastOp' = [NoOp EXCEPT !.op = "SetMetadataItem", !.obj = <<b, 0>>,
                                     !.err = r.err, !.pre = pszName, !.out = pszValue,
                                     !.y = eAccess]
    /\ UNCHANGED <<m_mutex, threads, file, alive, m_fp, eAccess, hdr, m_tileOffsets,
                   submitted, ratLog, nOps>>

\* band b: SetMetadata(papszMetadata), which has no test of the access mode
BandSetMetadata(b, papszMetadata) ==
    /\ alive
    /\ b \in 1..Len(bands)
    /\ bands' = [bands EXCEPT ![b] = SetMetadata(@, papszMetadata, 1)]
    /\ lastOp' = [NoOp EXCEPT !.op = "SetMetadata", !.obj = <<b, 0>>,
                              !.pre = papszMetadata, !.y = eAccess]
    /\ UNCHANGED <<m_mutex, threads, file, alive, m_fp, eAccess, hdr, m_tileOffsets,
                   submitted, ratLog, nOps>>

\* the one-entry lists SetMetadata is given: "name=value"
ItemLists == {<<n \o <<CH_EQUALS>> \o v>> : n \in ItemNames, v \in ItemValues}

NextStatistics ==
    \/ \E nBands \in 1..2 : Create(nBands, GDT_Byte)
    \/ \E b \in 1..2, n \in ItemNames, v \in ItemValues : BandSetMetadataItem(b, n, v)
    \/ \E b \in 1..2, l \in ItemLists : BandSetMetadata(b, l)
    \/ Close(CE_None)
    \/ Destroy(CE_None)
    \/ \E hg \in HeaderGarbage, g \in Garbage : Open(GA_ReadOnly, hg, g)

SpecStatistics == Init /\ [][NextStatistics]_vars

\* the last call assigned a statistics key on a band of a dataset open for writing
StatisticsAssigned ==
    /\ alive /\ eAccess = GA_Update
    /\ lastOp.op = "SetMetadataItem"
    /\ lastOp.pre \in StatisticsKeys

\* C28: on a band of a write-open container, assigning a metadata item whose
\* key is one of the reserved statistics keys succeeds and updates the
\* corresponding statistic field
C28_StatisticsAssignable ==
    StatisticsAssigned =>
        /\ lastOp.err = CE_None
        /\ StatisticsField(bands[lastOp.obj[1]], lastOp.pre) = Atof(lastOp.out)

\* C28 as the code has it: on a band of a write-open container SetMetadataItem
\* with a statistics key fails and changes nothing, SetMetadata ignores such an
\* entry, and the four statistic fields keep the NaN of the constructor, which
\* is what Close writes and a later Open reads back
C28_StatisticsRefused ==
    /\ [](alive =>
             \A b \in 1..Len(bands) : \A k \in StatisticsKeys :
                 StatisticsField(bands[b], k) = NaN)
    /\ [][/\ StatisticsAssigned' /\ lastOp' # lastOp
             => lastOp'.err = CE_Failure /\ bands' = bands /\ file' = file
          /\ (alive /\ eAccess = GA_Update /\ lastOp'.op = "SetMetadata")
             => \A b \in 1..Len(bands) : \A k \in StatisticsKeys :
                    StatisticsField(bands'[b], k) = StatisticsField(bands[b], k)]_vars

C28_Witness ==
    /\ StatisticsAssigned
    /\ lastOp.err = CE_Failure
    /\ lastOp.out = <<CH_ZERO + 1>>
    /\ StatisticsField(bands[lastOp.obj[1]], lastOp.pre) = NaN


-----------------------------------------------------------------------------
(* Close and the caches it flushes *)

CE_Fatal == 4

\* the dataset object among the objects Close flushes
DatasetObj == <<0, 0>>

\* Close flushing each band before that band's overviews
FlushOrderBandFirst(bs) ==
    Concat([b \in 1..Len(bs) |->
               <<<<b, 0>>>> \o [o \in 1..Len(bs[b].ovs) |-> <<b, o>>]], 1)
    \o <<DatasetObj>>

\* the objects EMUDataset::Close calls FlushCache on, in the order of its
\* loops: the overviews of a band, then the band, band by band, then the dataset
FlushOrder(bs) ==
    Concat([b \in 1..Len(bs) |->
               [o \in 1..Len(bs[b].ovs) |-> <<b, o>>] \o <<<<b, 0>>>>], 1)
    \o <<DatasetObj>>

\* FlushCache(true) of object o: the block cache, outside this code, fails for
\* the objects listed in fails with the error listed
FlushCache(fails, o) ==
    IF \E i \in 1..Len(fails) : fails[i].obj = o
    THEN fails[CHOOSE i \in 1..Len(fails) : fails[i].obj = o].err
    ELSE CE_None

\* the flushes of Close from the i-th on: the first result that is not
\* CE_None is returned at once
RECURSIVE FlushAll(_, _, _)
FlushAll(order, fails, i) ==
    IF i > Len(order) THEN CE_None
    ELSE IF FlushCache(fails, order[i]) # CE_None THEN FlushCache(fails, order[i])
    ELSE FlushAll(order, fails, i + 1)

\* the failures the block cache is made to report: none, one or two objects
FlushErrors == {CE_Failure, CE_Fatal}
FlushFailures(objs) ==
    LET one == {[obj |-> o, err |-> e] : o \in objs, e \in FlushErrors}
    IN  {<<>>} \cup {<<f>> : f \in one}
        \cup {p \in one \X one : p[1].obj # p[2].obj}

\* EMUDataset::Close with the flushes failing as listed
CloseFlushing(fails) ==
    /\ alive
    /\ LET flushErr == IF eAccess = GA_Update /\ m_fp # NULL
                       THEN FlushAll(FlushOrder(bands), fails, 1) ELSE CE_None
           r == CloseResult(eAccess, file, m_fp, hdr, bands, m_tileOffsets, flushErr)
       IN  /\ file' = r.file
           /\ m_fp' = r.fp
           /\ bands' = r.bands
           /\ lastOp' = [NoOp EXCEPT !.op = "Close", !.err = r.err, !.pre = file,
                                     !.x = m_fp, !.y = eAccess, !.out = fails,
                                     !.n = IF r.sealed THEN 1 ELSE 0]
    /\ UNCHANGED <<m_mutex, threads, alive, eAccess, hdr, m_tileOffsets, submitted, ratLog, nOps>>

NextFlush ==
    \/ \E nBands \in 1..2 : Create(nBands, GDT_Byte)
    \/ \E l \in OverviewLists, factors \in {<<2>>, <<1, 2>>} : IBuildOverviews(l, factors)
    \/ \E fails \in FlushFailures(BandObjs(bands) \cup {DatasetObj}) : CloseFlushing(fails)
    \/ Destroy(CE_None)
    \/ \E hg \in HeaderGarbage, g \in Garbage : Open(GA_ReadOnly, hg, g)

SpecFlush == Init /\ [][NextFlush]_vars

\* object o1 is flushed before object o2: the dataset is last, bands go by
\* number, and the overviews of a band go before the band, by number
FlushedBefore(o1, o2) ==
    IF o2 = DatasetObj THEN o1 # DatasetObj
    ELSE /\ o1 # DatasetObj
         /\ \/ o1[1] < o2[1]
            \/ /\ o1[1] = o2[1]
               /\ o1[2] # 0
               /\ (o2[2] = 0 \/ o1[2] < o2[2])

\* the last call was Close on a dataset that was still writing
ClosedWriting ==
    /\ alive /\ lastOp.op = "Close" /\ lastOp.y = GA_Update /\ lastOp.x # NULL

\* C29: if a flush fails during Close, Close returns the first failure in
\* flush order (each band's overviews, then the band, band by band, then the
\* dataset) and writes neither the footer nor the trailing offset; if no flush
\* fails, Close writes the footer and returns success
C29_FirstFlushFailure ==
    ClosedWriting =>
        IF lastOp.out = <<>>
        THEN /\ lastOp.err = CE_None
             /\ m_fp = NULL
             /\ Len(file) > Len(lastOp.pre)
             /\ SubSeq(file, 1, lastOp.x) = SubSeq(lastOp.pre, 1, lastOp.x)
             /\ PointsAtFooter(file)
             /\ GetU64(SubSeq(file, Len(file) - 7, Len(file))) = lastOp.x
        ELSE /\ \E i \in 1..Len(lastOp.out) :
                    /\ \A j \in 1..Len(lastOp.out) :
                           j # i => FlushedBefore(lastOp.out[i].obj, lastOp.out[j].obj)
                    /\ lastOp.err = lastOp.out[i].err
             /\ file = lastOp.pre
             /\ m_fp = lastOp.x

\* two flushes fail with different errors, the band's before its overview's in
\* the list: Close returns the overview's
C29_Witness ==
    /\ ClosedWriting
    /\ Len(lastOp.out) = 2
    /\ lastOp.out[1].obj = <<1, 0>> /\ lastOp.out[2].obj = <<1, 1>>
    /\ lastOp.out[1].err # lastOp.out[2].err
    /\ lastOp.err = lastOp.out[2].err
    /\ file = lastOp.pre


-----------------------------------------------------------------------------
(* The exits of the copy step: CopyBand stopped by a read, a write, the caller *)

\* the ways a copy of at most n blocks is stopped: not at all, or at one block
\* by the source read, the destination write or the progress function
Stops(n) ==
    {NoStop}
    \cup {[NoStop EXCEPT !.read = k] : k \in 1..n}
    \cup {[NoStop EXCEPT !.write = k] : k \in 1..n}
    \cup {[NoStop EXCEPT !.cancel = k] : k \in 1..n}

NextCopySteps ==
    \/ \E nBands \in 1..MaxCopyBands, eType \in {GDT_Byte, GDT_UInt16},
          nOverviews \in 0..MaxCopyOverviews, stop \in Stops(MaxCopyBlocks) :
           CreateCopy(nBands, eType, nOverviews, <<>>, stop, CE_None, 0)
    \/ Close(CE_None)
    \/ Destroy(CE_None)
    \/ \E hg \in HeaderGarbage, g \in Garbage : Open(GA_ReadOnly, hg, g)

SpecCopySteps == Init /\ [][NextCopySteps]_vars

\* the last call was a CreateCopy; lastOp.out holds the number of block
\* buffers still allocated and the number of tiles in the tile map when the
\* copy loops ended, lastOp.x the blocks copied, lastOp.msg the exit taken
CopyEnded == lastOp.op = "CreateCopy"

\* C30: on every exit of the copy step (success, source read failure,
\* destination write failure, cancellation) the scratch buffer of the step has
\* been freed when it returns, and the first tile failure makes CreateCopy
\* return failure without copying any later tile
C30_ScratchFreed ==
    CopyEnded =>
        /\ lastOp.out[1] = 0
        /\ lastOp.msg # "" =>
               /\ lastOp.err = CE_Failure /\ ~alive
               /\ lastOp.out[2] = lastOp.x

\* the part of C30 that is about the tiles: a copy that a failure stops
\* returns failure, and the tile map holds the blocks counted until then
CopyStopsAtFailure ==
    (CopyEnded /\ lastOp.msg # "") =>
        /\ lastOp.err = CE_Failure /\ ~alive
        /\ lastOp.out[2] = lastOp.x

\* the part of C30 that holds of the buffer: it is freed when the step ends
\* its loops or is cancelled
FreedUnlessFailed ==
    (CopyEnded /\ lastOp.msg \in {"", "cancel"}) => lastOp.out[1] = 0


-----------------------------------------------------------------------------
(* The progress function of CreateCopy, checked under SpecCopySteps *)

\* the last call was a CreateCopy that returned the new dataset
CopySucceeded == CopyEnded /\ lastOp.err = CE_None /\ alive

\* C31: during a CreateCopy that succeeds the progress function is called
\* once after each copied tile, with the fractions 1/T, 2/T, ..., T/T, where T
\* is the number of tiles of all bands at all levels, level 0 included: the
\* fractions rise strictly, the last is 1 and none is above 1
C31_ProgressPerTile ==
    CopySucceeded =>
        LET T == SrcBlocks(Len(bands), Len(bands[1].ovs))
            calls == lastOp.out[3]
        IN  /\ lastOp.x = T
            /\ Len(calls) = T
            /\ \A i \in 1..T : calls[i] = <<i, T>>

C31_Witness ==
    /\ CopySucceeded
    /\ Len(bands) = MaxCopyBands /\ Len(bands[1].ovs) = MaxCopyOverviews
    /\ Len(lastOp.out[3]) = MaxCopyBlocks
    /\ lastOp.out[3][MaxCopyBlocks] = <<MaxCopyBlocks, MaxCopyBlocks>>


-----------------------------------------------------------------------------
(* State machine: threads in the attribute table.  A thread calls the int    *)
(* ValuesIO on column iField of band 1 for row 0 and runs it statement by    *)
(* statement, or calls CreateColumn or SetRowCount, which are one statement  *)
(* each; the table, the file and the mutex are shared.                       *)

\* the most calls the threads make, and the most columns they declare
MaxThreadOps == 4

MaxThreadCols == 2

\* thread t calls ValuesIO(eRWFlag, iField, 0, 1, pnData); the index test
\* passes
ThreadValuesIO(t, iField, eRWFlag) ==
    /\ alive /\ m_fp # NULL
    /\ nOps < MaxThreadOps
    /\ threads[t].pc = "idle"
    /\ iField < Len(bands[1].m_rat.m_cols)
    /\ threads' = [threads EXCEPT ![t] = [IdleThread EXCEPT !.pc = "rat_type", !.x = iField,
                                              !.y = eRWFlag]]
    /\ nOps' = nOps + 1
    /\ UNCHANGED <<file, alive, m_fp, eAccess, hdr, bands, m_tileOffsets, submitted,
                   ratLog, lastOp, m_mutex>>

\* the call of thread t has returned err; held tells whether it held the
\* mutex during the statement that is recorded
ThreadReturned(t, what, err, held) ==
    lastOp' = [NoOp EXCEPT !.op = what, !.x = t, !.obj = <<1, threads[t].x>>,
                           !.y = threads[t].y, !.err = err, !.lk = held]

\* m_cols[iField].colType is read: a String column is the wrong type, a Real
\* column is handed to ValuesIO(double*), which goes the same way
ThreadType(t) ==
    /\ threads[t].pc = "rat_type"
    /\ IF bands[1].m_rat.m_cols[threads[t].x + 1].colType = GFT_String
       THEN /\ threads' = [threads EXCEPT ![t].pc = "idle"]
            /\ ThreadReturned(t, "ValuesIO", CE_Failure, m_mutex = t)
       ELSE /\ threads' = [threads EXCEPT ![t].pc = "rat_clamp"]
            /\ UNCHANGED lastOp
    /\ UNCHANGED <<file, alive, m_fp, eAccess, hdr, bands, m_tileOffsets, submitted,
                   ratLog, nOps, m_mutex>>

\* m_nRowCount is read: a start row at or past it returns at once
ThreadClamp(t) ==
    /\ threads[t].pc = "rat_clamp"
    /\ IF 0 >= bands[1].m_rat.m_nRowCount
       THEN /\ threads' = [threads EXCEPT ![t].pc = "idle"]
            /\ ThreadReturned(t, "ValuesIO", CE_None, m_mutex = t)
       ELSE /\ threads' = [threads EXCEPT ![t].pc = "rat_lock"]
            /\ UNCHANGED lastOp
    /\ UNCHANGED <<file, alive, m_fp, eAccess, hdr, bands, m_tileOffsets, submitted,
                   ratLog, nOps, m_mutex>>

\* const std::lock_guard<std::mutex> lock(*m_mutex)
ThreadRatLock(t) ==
    /\ threads[t].pc = "rat_lock"
    /\ MutexFree(m_mutex)
    /\ m_mutex' = t
    /\ threads' = [threads EXCEPT ![t].pc = "rat_chunks"]
    /\ UNCHANGED <<file, alive, m_fp, eAccess, hdr, bands, m_tileOffsets, submitted,
                   ratLog, lastOp, nOps>>

\* the rest of the body: the chunk list of the column is walked or grown and
\* the file read or written.  When another thread grew m_cols meanwhile
\* (raced) the column this call refers to may be the one the vector left
\* behind: what the call adds to the chunk list is then kept or lost.
ThreadChunks(t, kept) ==
    /\ threads[t].pc = "rat_chunks"
    /\ kept \/ threads[t].raced
    /\ LET r == ValuesIO_int(bands[1].m_rat, eAccess, file, m_fp, threads[t].y,
                             threads[t].x, 0, 1, <<RatValue(nOps, 0)>>, 0)
       IN  /\ file' = r.file
           /\ m_fp' = r.pos
           /\ bands' = IF kept THEN [bands EXCEPT ![1].m_rat = r.rat] ELSE bands
           /\ lastOp' = [NoOp EXCEPT !.op = "ValuesIO", !.x = t,
                                     !.obj = <<1, threads[t].x>>, !.y = threads[t].y,
                                     !.err = r.err, !.lk = (m_mutex = t),
                                     !.msg = "chunks", !.n = IF kept THEN 1 ELSE 0]
    /\ threads' = [threads EXCEPT ![t].pc = "rat_unlock"]
    /\ UNCHANGED <<alive, eAccess, hdr, m_tileOffsets, submitted, ratLog, nOps, m_mutex>>

\* the return: the lock_guard goes out of scope
ThreadRatUnlock(t) ==
    /\ threads[t].pc = "rat_unlock"
    /\ m_mutex' = NULL
    /\ threads' = [threads EXCEPT ![t].pc = "idle"]
    /\ UNCHANGED <<file, alive, m_fp, eAccess, hdr, bands, m_tileOffsets, submitted,
                   ratLog, lastOp, nOps>>

\* thread t calls CreateColumn: m_cols.push_back(col), with no lock taken.
\* The calls of other threads that are among the chunk lists have raced it.
ThreadCreateColumn(t, eFieldType) ==
    /\ alive /\ m_fp # NULL
    /\ nOps < MaxThreadOps
    /\ threads[t].pc = "idle"
    /\ Len(bands[1].m_rat.m_cols) < MaxThreadCols
    /\ bands' = [bands EXCEPT ![1].m_rat = AddColumn(@, <<65 + eFieldType>>, eFieldType)]
    /\ threads' = [u \in Threads |->
                      IF u # t /\ threads[u].pc = "rat_chunks"
                      THEN [threads[u] EXCEPT !.raced = TRUE] ELSE threads[u]]
    /\ lastOp' = [NoOp EXCEPT !.op = "CreateColumn", !.x = t, !.n = eFieldType,
                              !.lk = (m_mutex = t), !.msg = "chunks",
                              !.y = IF \E u \in Threads : u # t /\ threads[u].pc = "rat_chunks"
                                    THEN 1 ELSE 0]
    /\ nOps' = nOps + 1
    /\ UNCHANGED <<file, alive, m_fp, eAccess, hdr, m_tileOffsets, submitted, ratLog, m_mutex>>

\* thread t calls SetRowCount(iCount), with no lock taken
ThreadSetRowCount(t, iCount) ==
    /\ alive /\ m_fp # NULL
    /\ nOps < MaxThreadOps
    /\ threads[t].pc = "idle"
    /\ bands' = [bands EXCEPT ![1].m_rat = RaiseRowCount(@, iCount)]
    /\ lastOp' = [NoOp EXCEPT !.op = "SetRowCount", !.x = t, !.n = iCount,
                              !.lk = (m_mutex = t)]
    /\ nOps' = nOps + 1
    /\ UNCHANGED <<file, alive, m_fp, eAccess, hdr, m_tileOffsets, submitted, ratLog,
                   m_mutex, threads>>

NextRatThreads ==
    \/ Create(1, GDT_Byte)
    \/ \E t \in Threads, iField \in 0..(MaxThreadCols - 1), eRWFlag \in {GF_Read, GF_Write} :
           ThreadValuesIO(t, iField, eRWFlag)
    \/ \E t \in Threads, eFieldType \in {GFT_Integer, GFT_String} :
           ThreadCreateColumn(t, eFieldType)
    \/ \E t \in Threads : ThreadSetRowCount(t, MaxRows)
    \/ \E t \in Threads :
           \/ ThreadType(t)
           \/ ThreadClamp(t)
           \/ ThreadRatLock(t)
           \/ \E kept \in BOOLEAN : ThreadChunks(t, kept)
           \/ ThreadRatUnlock(t)

SpecRatThreads == Init /\ [][NextRatThreads]_vars

\* the last statement was among the chunk lists: ValuesIO walking or growing
\* one, or CreateColumn growing the vector that holds them
AmongChunkLists == lastOp.x \in Threads /\ lastOp.msg = "chunks"

\* C32: between creation and Close every operation that reads or modifies a
\* chunk list (ValuesIO, and CreateColumn, which grows the vector holding the
\* columns and their chunk lists) holds the mutex while it does so
C32_ChunkListsLocked ==
    AmongChunkLists => lastOp.lk

\* the part of C32 that holds: ValuesIO is among the chunk lists only with
\* the mutex held
ValuesIOLocked ==
    (AmongChunkLists /\ lastOp.op = "ValuesIO") => lastOp.lk


-----------------------------------------------------------------------------
(* CreateEMU on an object store: the part size of the multi part upload.     *)
(* The raster sizes of this section are multiples of 1024 pixels, given in   *)
(* units of 1024, so that nXSize * nYSize * nBands * bytes is m * ONE_MB for *)
(* the m below and every quantity is a whole number of MB.                   *)

S3_MAX_PARTS == 1000
S3_MIN_PART_SIZE == 50
S3_MAX_PART_SIZE == 5000

\* the raster sizes tried, in units of 1024 pixels: up to 2^22 pixels a side
SizesKi == {1, 16, 32, 256, 512, 2048, 4096}

\* nXSize * nYSize * nBands * GDALGetDataTypeSizeBytes(eType), in MB, as a
\* mathematical product
PixelMB(xKi, yKi, nBands, eType) == xKi * yKi * nBands * typeSizeOf(eType)

\* an int product computed without overflow whatever its size
IntProductMBExact(m) == {m}

\* the values (nXSize * nYSize * nBands * bytes) / ONE_MB takes in int
\* arithmetic: the product itself below 2^31 bytes (2^11 MB); past that the
\* multiplication overflows, which is undefined: the build wraps (the low 32
\* bits, as a signed number) or may leave any int, of which the least and the
\* greatest are taken here
IntProductMB(m) ==
    IF m < 2^11 THEN {m}
    ELSE {IF (m % (2^12)) >= 2^11 THEN (m % (2^12)) - 2^12 ELSE m % (2^12),
          0 - 2^11, 2^11 - 1}

\* the body of CreateEMU for a name under /vsis3, from the int quotient mb:
\* dApproxFileSize = mb * 0.5, nChunkSize = ceil(dApproxFileSize / 1000)
ChunkSize(mb) ==
    LET nChunkSize == 0 - ((0 - mb) \div (2 * S3_MAX_PARTS))
        n == IF nChunkSize < S3_MIN_PART_SIZE THEN S3_MIN_PART_SIZE ELSE nChunkSize
    IN  IF n * S3_MAX_PARTS > S3_MAX_PART_SIZE * S3_MAX_PARTS
        THEN [ok |-> FALSE, nChunkSize |-> n]
        ELSE [ok |-> TRUE, nChunkSize |-> n]

\* EMUDataset::CreateEMU("/vsis3/...", nXSize, nYSize, nBands, eType)
CreateEMU(xKi, yKi, nBands, eType, mb) ==
    /\ ~alive /\ lastOp.op = "none"
    /\ mb \in IntProductMB(PixelMB(xKi, yKi, nBands, eType))
    /\ lastOp' = [NoOp EXCEPT !.op = "CreateEMU", !.x = xKi, !.y = yKi,
                              !.obj = <<nBands, eType>>,
                              !.n = PixelMB(xKi, yKi, nBands, eType),
                              !.out = <<ChunkSize(mb).nChunkSize, mb>>,
                              !.err = IF ChunkSize(mb).ok THEN CE_None ELSE CE_Failure]
    /\ UNCHANGED <<m_mutex, threads, file, alive, m_fp, eAccess, hdr, bands, m_tileOffsets,
                   submitted, ratLog, nOps>>

NextParts ==
    \E xKi, yKi \in SizesKi, nBands \in 1..3, eType \in {GDT_Byte, GDT_UInt16} :
        \E mb \in IntProductMB(PixelMB(xKi, yKi, nBands, eType)) :
            CreateEMU(xKi, yKi, nBands, eType, mb)

SpecParts == Init /\ [][NextParts]_vars

\* C33: for an object-store target, whenever creation succeeds the part size
\* P (MB) has 50 <= P <= 5000 and P * 1000 >= the expected file size in MB,
\* xSize * ySize * bands * elementSize * 0.5, and creation fails whenever
\* that size exceeds 1000 parts of 5000 MB; for all sizes that are 32-bit
\* ints, those whose product exceeds 2^31 included
C33_PartSize ==
    lastOp.op = "CreateEMU" =>
        /\ lastOp.err = CE_None =>
               /\ S3_MIN_PART_SIZE <= lastOp.out[1] /\ lastOp.out[1] <= S3_MAX_PART_SIZE
               /\ 2 * lastOp.out[1] * S3_MAX_PARTS >= lastOp.n
        /\ lastOp.n > 2 * S3_MAX_PART_SIZE * S3_MAX_PARTS => lastOp.err = CE_Failure

\* the same for the sizes whose product stays below 2^31 bytes
PartSizeWithoutOverflow ==
    (lastOp.op = "CreateEMU" /\ lastOp.n < 2^11) =>
        /\ lastOp.err = CE_None
        /\ lastOp.out[1] = S3_MIN_PART_SIZE


-----------------------------------------------------------------------------
(* The payload records of a write session, checked under SpecSession *)

\* the payload records a dataset has recorded: the tiles of its tile index
\* and the chunks of its columns, each with its offset and compressed size
Records(bs, tiles) ==
    {[kind |-> "tile", key |-> k, offset |-> tiles[k].offset, size |-> tiles[k].size] :
        k \in DOMAIN tiles}
    \cup UNION {UNION {{[kind |-> "chunk", key |-> <<b, c>>,
                         offset |-> bs[b].m_rat.m_cols[c].chunks[n].offset,
                         size |-> bs[b].m_rat.m_cols[c].chunks[n].compressedSize] :
                           n \in 1..Len(bs[b].m_rat.m_cols[c].chunks)} :
                       c \in 1..Len(bs[b].m_rat.m_cols)} :
                b \in 1..Len(bs)}

\* the byte after the record: offset + 1 + compressedSize
RecordEnd(r) == r.offset + 1 + r.size

\* a step of a write session that records payload
RecordsAdded ==
    /\ alive /\ alive' /\ eAccess = GA_Update /\ eAccess' = GA_Update
    /\ Records(bands', m_tileOffsets') # Records(bands, m_tileOffsets)

\* C34: in a write-open container, for any interleaving of tile writes, RAT
\* writes and RAT reads, every record is recorded at an offset at or past the
\* end of every record written before it, so that the offsets rise strictly
\* in the order of writing and no two byte ranges
\* [offset, offset + 1 + compressedSize) overlap
C34_RecordsAppended ==
    [][RecordsAdded =>
          LET old == Records(bands, m_tileOffsets)
              new == Records(bands', m_tileOffsets') \ old
          IN  /\ \A n \in new : \A r \in old : n.offset >= RecordEnd(r)
              /\ \A n1, n2 \in new :
                     n1 = n2 \/ n1.offset >= RecordEnd(n2) \/ n2.offset >= RecordEnd(n1)]_vars

-----------------------------------------------------------------------------
(* The tile index of a dataset that is read (emudataset.cpp 284-287,        *)
(* emuband.cpp 93-106)                                                      *)

\* a step that is an IReadBlock on a dataset opened to be read
ReadOnlyRead == alive /\ eAccess = GA_ReadOnly /\ lastOp'.op = "IReadBlock"

\* C35: an IReadBlock on a dataset opened to be read, for a key that is in the
\* tile index or one that is not, leaves the index as Open loaded it: the same
\* keys, each with the same value
C35_IndexUnchangedByRead ==
    [][ReadOnlyRead => m_tileOffsets' = m_tileOffsets]_vars

\* for a key that is in the index the read leaves the index alone
IndexUnchangedByReadOfKey ==
    [][(ReadOnlyRead /\ lastOp'.n = 1) => m_tileOffsets' = m_tileOffsets]_vars

-----------------------------------------------------------------------------
(* Close after Close (emudataset.cpp 87-135)                                *)

\* a step that is Close, called or made by the destructor
Closing == alive /\ lastOp'.op \in {"Close", "Destroy"}

\* a Close of this dataset, open for writing, has succeeded: the last call was
\* one that sealed the file, or the handle is the null one it leaves
ClosedBefore ==
    /\ eAccess = GA_Update
    /\ m_fp = NULL \/ (lastOp.op = "Close" /\ lastOp.n = 1 /\ lastOp.err = CE_None)

\* C36: on a dataset open for writing that a Close has sealed (the handle is
\* null), a further Close, the one of the destructor too, writes nothing and
\* returns success, so the file keeps the one footer and trailer it has; a
\* Close of a dataset opened to be read writes nothing
C36_CloseIdempotent ==
    [][/\ (Closing /\ ClosedBefore)
           => /\ file' = file
              /\ lastOp'.err = CE_None
              /\ lastOp'.n = 0
       /\ (Closing /\ eAccess = GA_ReadOnly) => file' = file]_vars

\* C36 witness: Close was called on a dataset with a block written that an
\* earlier Close had sealed, and the file is the sealed one
C36_Witness ==
    /\ alive /\ eAccess = GA_Update
    /\ lastOp.op = "Close" /\ lastOp.x = NULL /\ lastOp.err = CE_None
    /\ m_tileOffsets # EmptyTiles
    /\ file = lastOp.pre
    /\ HasFooter(file) /\ Readable(file)

-----------------------------------------------------------------------------
(* CreateCopy of a source whose bands have different numbers of overviews   *)
(* (emudataset.cpp 722-785)                                                 *)

\* the test CreateCopy makes before the copy step of overview index
\* nOverviewLevel (from 0) of a band that has nOverviews overviews
LevelCopied(nOverviews, nOverviewLevel) == nOverviews >= nOverviewLevel

\* nMaxOverview: the greatest number of overviews of a source band
RECURSIVE MaxOverview(_, _)
MaxOverview(counts, n) ==
    IF n > Len(counts) THEN 0
    ELSE IF counts[n] > MaxOverview(counts, n + 1) THEN counts[n]
    ELSE MaxOverview(counts, n + 1)

\* the band objects of the copy steps CreateCopy starts, in order, for a
\* source whose band n has counts[n] overviews: at each overview index from
\* nMaxOverview - 1 down to 0 the bands that pass the test, then the bands
\* (the object <<n, l>> is overview index l - 1 of band n)
CopyLevels(counts) ==
    Concat([k \in 1..MaxOverview(counts, 1) |->
               SelectSeq([n \in 1..Len(counts) |-> <<n, MaxOverview(counts, 1) + 1 - k>>],
                         LAMBDA o : LevelCopied(counts[o[1]], o[2] - 1))], 1)
    \o [n \in 1..Len(counts) |-> <<n, 0>>]

\* GetOverview(nOverviewLevel) of the source and of the destination band is
\* no overview: the band has no overview of that index
MissingOverview(bs, obj) == obj[2] > Len(bs[obj[1]].ovs)

\* what a CopyBand called with the pointers of a missing overview does (it
\* uses them at once, emudataset.cpp 618-623): the process is ended by the
\* signal, or the call comes back with one of its two results
NullCopy == {"SIGSEGV", "false", "true"}

\* the copy loops over the steps objs from step i on; ub is what a CopyBand
\* of a missing overview does.  started counts the steps started.
RECURSIVE CopyLevelSteps(_, _, _, _, _, _, _)
CopyLevelSteps(c, h, bs, objs, i, g, ub) ==
    IF i > Len(objs) THEN [ok |-> TRUE, c |-> c, started |-> Len(objs)]
    ELSE IF MissingOverview(bs, objs[i])
    THEN IF ub = "true" THEN CopyLevelSteps(c, h, bs, objs, i + 1, g, ub)
         ELSE [ok |-> FALSE, c |-> [c EXCEPT !.why = ub], started |-> i]
    ELSE CopyLevelSteps(
             CopyBand([c EXCEPT !.heap = @ + 1, !.dLastFraction = <<-1, 1>>],
                      h, bs, objs[i], 0,
                      Fill(ObjBlockSize(h, bs, objs[i]) * ObjBlockSize(h, bs, objs[i])
                               * typeSizeOf(h.m_eType), g),
                      NoStop).c,
             h, bs, objs, i + 1, g, ub)

\* the outcome r of the copy loops over the new dataset (h, bs) that started
\* in file f: the dataset is returned; or CopyBand returned false and
\* delete pDS closes the file; or the process ended and the file is what was
\* written.  lastOp.pre holds the overview counts of the source bands,
\* lastOp.out the band objects of the steps started.
CopyLevelsDone(r, h, bs, objs, counts) ==
    LET d == DestructorClose(GA_Update, r.c.file, r.c.pos, h, bs, r.c.tiles, CE_None)
    IN  /\ alive' = r.ok
        /\ eAccess' = IF r.ok THEN GA_Update ELSE GA_ReadOnly
        /\ file' = IF r.ok \/ r.c.why = "SIGSEGV" THEN r.c.file ELSE d.file
        /\ m_fp' = IF r.ok THEN r.c.pos ELSE NULL
        /\ m_tileOffsets' = IF r.ok THEN r.c.tiles ELSE EmptyTiles
        /\ hdr' = IF r.ok THEN h ELSE NoHdr
        /\ bands' = IF r.ok THEN bs ELSE <<>>
        /\ lastOp' = [NoOp EXCEPT !.op = "CreateCopy", !.x = r.c.nDoneBlocks,
                                  !.pre = counts, !.out = SubSeq(objs, 1, r.started),
                                  !.n = Cardinality(DOMAIN r.c.tiles),
                                  !.err = IF r.ok THEN CE_None ELSE CE_Failure,
                                  !.msg = r.c.why]

\* EMUDataset::CreateCopy of a source of Len(counts) bands, band n with
\* counts[n] overviews, that no read, write or progress call stops
CreateCopyLevels(counts, eType, g, ub) ==
    /\ ~alive
    /\ file = <<>>
    /\ LET h == NewDataset(eType, RasterSize, RasterSize, TRUE, DFLT_TILESIZE)
           bs == [n \in 1..Len(counts) |->
                     CreateOverviewsFromSizes(NewBand(n, DFLT_TILESIZE), SrcSizes(counts[n]))]
           f == Str.EMU \o <<CH_ZERO, CH_ZERO, CH_ZERO, CH_ZERO + EMU_VERSION>> \o U32(1)
           objs == CopyLevels(counts)
       IN  CopyLevelsDone(
               CopyLevelSteps([file |-> f, pos |-> Len(f), tiles |-> EmptyTiles,
                               nDoneBlocks |-> 0, heap |-> 0, why |-> "",
                               nTotalBlocks |-> SumTiles(h, bs, BandObjs(bs)),
                               calls |-> <<>>, dLastFraction |-> <<-1, 1>>],
                              h, bs, objs, 1, g, ub),
               h, bs, objs, counts)
    /\ nOps' = 0
    /\ UNCHANGED <<m_mutex, threads, submitted, ratLog>>

\* the overview counts of the bands of a source
OverviewCounts ==
    UNION {[1..nBands -> 0..MaxCopyOverviews] : nBands \in 1..MaxCopyBands}

\* a copy of such a source and what follows it: close or drop the dataset
\* returned, open the file, read blocks
NextCopyLevels ==
    \/ \E counts \in OverviewCounts, eType \in {GDT_Byte, GDT_UInt16}, g \in Garbage,
          ub \in NullCopy : CreateCopyLevels(counts, eType, g, ub)
    \/ Close(CE_None)
    \/ Destroy(CE_None)
    \/ \E hg \in HeaderGarbage, g \in Garbage : Open(GA_ReadOnly, hg, g)
    \/ \E obj \in BandObjs(bands), x, y \in 0..DFLT_TILESIZE, g \in Garbage :
           IReadBlock(obj, x, y, g)

SpecCopyLevels == Init /\ [][NextCopyLevels]_vars

\* C37: whatever the overview counts of the source bands, CreateCopy starts
\* the copy step of overview index k of a band only when the band has more
\* than k overviews: no step is started with a source and destination
\* overview that are missing
C37_OverviewStepsGuarded ==
    CopyEnded =>
        \A i \in 1..Len(lastOp.out) :
            lastOp.out[i][2] >= 1 => lastOp.pre[lastOp.out[i][1]] > lastOp.out[i][2] - 1

\* when every band of the source has the same number of overviews, the steps
\* are those of CopyOrder and each has its overviews
UniformLevelsGuarded ==
    (CopyEnded /\ \A n \in 1..Len(lastOp.pre) : lastOp.pre[n] = lastOp.pre[1]) =>
        /\ lastOp.out = CopyOrder(Len(lastOp.pre), lastOp.pre[1])
        /\ lastOp.err = CE_None
        /\ \A i \in 1..Len(lastOp.out) : lastOp.out[i][2] <= lastOp.pre[lastOp.out[i][1]]

-----------------------------------------------------------------------------
(* LAYER_TYPE set by SetMetadataItem and by SetMetadata (emuband.cpp        *)
(* 548-630)                                                                 *)

\* EMURasterBand::GetMetadataItem: the value found in m_papszMetadataList
GetMetadataItem(b, pszName) == CSLFetchNameValue(b.m_papszMetadataList, pszName)

\* the last call, on a band of a dataset open for writing, was
\* SetMetadataItem("LAYER_TYPE", v)
LayerTypeItemSet(v) ==
    /\ alive /\ eAccess = GA_Update
    /\ lastOp.op = "SetMetadataItem"
    /\ lastOp.pre = Str.LAYER_TYPE /\ lastOp.out = v

\* the last call, on a band of a dataset open for writing, was SetMetadata
\* with the one entry LAYER_TYPE=v
LayerTypeListSet(v) ==
    /\ alive /\ eAccess = GA_Update
    /\ lastOp.op = "SetMetadata"
    /\ lastOp.pre = <<Str.LAYER_TYPE \o <<CH_EQUALS>> \o v>>

\* band b is in the state the layer type v asks for, and reports it
LayerTypeIs(b, v) ==
    /\ b.m_bThematic = (v # Str.athematic)
    /\ GetMetadataItem(b, Str.LAYER_TYPE)
           = <<TRUE, IF v # Str.athematic THEN Str.thematic ELSE Str.athematic>>

\* C38: on a band of a dataset open for writing, SetMetadataItem("LAYER_TYPE",
\* v) and SetMetadata with the one entry LAYER_TYPE=v leave the band in the
\* same state, thematic unless v is "athematic", and GetMetadataItem(
\* "LAYER_TYPE") reports that state
C38_LayerTypeEitherWay ==
    \A v \in ItemValues :
        (LayerTypeItemSet(v) \/ LayerTypeListSet(v))
            => LayerTypeIs(bands[lastOp.obj[1]], v)

\* SetMetadata alone does as the claim says; SetMetadataItem leaves every
\* band athematic
LayerTypeByList ==
    \A v \in ItemValues :
        /\ LayerTypeListSet(v) => LayerTypeIs(bands[lastOp.obj[1]], v)
        /\ LayerTypeItemSet(v) => LayerTypeIs(bands[lastOp.obj[1]], Str.athematic)

-----------------------------------------------------------------------------
(* ValuesIO writes to the table of a dataset opened to be read (emurat.cpp  *)
(* 266-284, 448-468, 614-631)                                               *)

\* a step that is a ValuesIO write, through any of the three buffer types, to
\* a table of a dataset opened to be read
ReadOnlyRatWrite ==
    /\ alive /\ eAccess = GA_ReadOnly
    /\ lastOp'.op \in {"ValuesIO_int", "ValuesIO_double", "ValuesIO_string"}
    /\ lastOp'.y = GF_Write

\* C39: every ValuesIO write to the table of a dataset opened to be read
\* returns failure, whatever the start row (one at or past the row count too)
\* and the length, and leaves the chunk lists and the file as they were
C39_ReadOnlyWriteFails ==
    [][ReadOnlyRatWrite
          => /\ lastOp'.err = CE_Failure
             /\ file' = file
             /\ bands' = bands]_vars

\* such a write leaves the chunk lists and the file as they were, and fails
\* when its start row is below the row count
ReadOnlyWriteChangesNothing ==
    [][ReadOnlyRatWrite
          => /\ file' = file
             /\ bands' = bands
             /\ lastOp'.x < bands[lastOp'.obj[1]].m_rat.m_nRowCount
                    => lastOp'.err = CE_Failure]_vars

-----------------------------------------------------------------------------
(* State machine: the mutex in IReadBlock, IWriteBlock, ValuesIO and Close.  *)
(* Threads call IWriteBlock(x, 0) and IReadBlock(x, 0) on band 1, the int     *)
(* ValuesIO on its table, and Close; each call runs statement by statement   *)
(* as far as the mutex is concerned, its body under the lock being one step. *)
(* Close is called when no other call is running, and no call is made while  *)
(* it runs.                                                                  *)

\* the most calls the threads make on a dataset
MaxCalls == 2

\* the lock_guard of a call goes out of scope: the mutex is released
LockGuardKept(m) == m

LockGuardEnd(m) == NULL

\* no call is running
Quiet == \A t \in Threads : threads[t].pc = "idle"

\* no Close is running
NoClose == \A t \in Threads : threads[t].pc \notin {"cl_flush", "cl_lock", "cl_write", "cl_footer"}

\* thread t calls IWriteBlock(x, 0, pData) on band 1: the lock_guard is its
\* first statement
CallIWriteBlock(t, x) ==
    /\ alive /\ eAccess = GA_Update /\ m_fp # NULL
    /\ NoClose
    /\ nOps < MaxCalls
    /\ threads[t].pc = "idle"
    /\ threads' = [threads EXCEPT ![t] = [IdleThread EXCEPT !.pc = "wr_lock", !.x = x,
                                              !.waited = (m_mutex # NULL)]]
    /\ nOps' = nOps + 1
    /\ UNCHANGED <<file, alive, m_fp, eAccess, hdr, bands, m_tileOffsets, submitted,
                   ratLog, lastOp, m_mutex>>

\* thread t calls IReadBlock(x, 0, pData) on band 1
CallIReadBlock(t, x) ==
    /\ alive /\ m_fp # NULL
    /\ NoClose
    /\ nOps < MaxCalls
    /\ threads[t].pc = "idle"
    /\ x < BlocksAlong(hdr.nRasterXSize, bands[1].nBlockXSize)
    /\ threads' = [threads EXCEPT ![t] = [IdleThread EXCEPT !.pc = "rd_access", !.x = x]]
    /\ nOps' = nOps + 1
    /\ UNCHANGED <<file, alive, m_fp, eAccess, hdr, bands, m_tileOffsets, submitted,
                   ratLog, lastOp, m_mutex>>

\* thread t calls Close, which takes no lock
CallClose(t) ==
    /\ alive
    /\ Quiet
    /\ threads' = [threads EXCEPT ![t] = [IdleThread EXCEPT !.pc = "cl_flush"]]
    /\ UNCHANGED <<file, alive, m_fp, eAccess, hdr, bands, m_tileOffsets, submitted,
                   ratLog, lastOp, nOps, m_mutex>>

\* the access test that opens IReadBlock: the failure is returned before the
\* lock_guard
ThreadAccess(t) ==
    /\ threads[t].pc = "rd_access"
    /\ IF ReadRejected(eAccess)
       THEN /\ threads' = [threads EXCEPT ![t].pc = "idle"]
            /\ lastOp' = [NoOp EXCEPT !.op = "IReadBlock", !.x = t, !.err = CE_Failure,
                                      !.msg = "CPLE_NotSupported", !.lk = (m_mutex = t)]
       ELSE /\ threads' = [threads EXCEPT ![t].pc = "rd_lock",
                                          ![t].waited = (m_mutex # NULL)]
            /\ UNCHANGED lastOp
    /\ UNCHANGED <<file, alive, m_fp, eAccess, hdr, bands, m_tileOffsets, submitted,
                   ratLog, nOps, m_mutex>>

\* the thread waits at a lock_guard of IWriteBlock, of IReadBlock, or of the
\* IWriteBlock that the flush of Close calls
AtLockGuard(t) == threads[t].pc \in {"wr_lock", "rd_lock", "cl_lock"}

\* const std::lock_guard<std::mutex> lock(*m_mutex) in IWriteBlock and
\* IReadBlock
ThreadAcquire(t) ==
    /\ AtLockGuard(t)
    /\ MutexFree(m_mutex)
    /\ m_mutex' = t
    /\ threads' = [threads EXCEPT ![t].pc =
                      CASE threads[t].pc = "wr_lock" -> "wr_size"
                        [] threads[t].pc = "rd_lock" -> "rd_body"
                        [] threads[t].pc = "cl_lock" -> "cl_write"]
    /\ UNCHANGED <<file, alive, m_fp, eAccess, hdr, bands, m_tileOffsets, submitted,
                   ratLog, lastOp, nOps>>

\* GetActualBlockSize in IWriteBlock: it fails for a block that is not of the
\* band, and the error is returned
ThreadBlockSize(t) ==
    /\ threads[t].pc = "wr_size"
    /\ IF threads[t].x >= BlocksAlong(hdr.nRasterXSize, bands[1].nBlockXSize)
       THEN /\ threads' = [threads EXCEPT ![t].pc = "idle"]
            /\ m_mutex' = LockGuardEnd(m_mutex)
            /\ lastOp' = [NoOp EXCEPT !.op = "IWriteBlock", !.x = t, !.err = CE_Failure,
                                      !.msg = "GetActualBlockSize", !.lk = TRUE]
       ELSE /\ threads' = [threads EXCEPT ![t].pc = "wr_body"]
            /\ UNCHANGED <<m_mutex, lastOp>>
    /\ UNCHANGED <<file, alive, m_fp, eAccess, hdr, bands, m_tileOffsets, submitted,
                   ratLog, nOps>>

\* the rest of IWriteBlock and its return, in a call of the thread or in the
\* one the flush of Close makes
ThreadWrite(t) ==
    /\ threads[t].pc \in {"wr_body", "cl_write"}
    /\ LET w == WriteBlock(file, m_fp, m_tileOffsets, 0, bands[1].nBand, hdr.m_eType,
                           bands[1].nBlockXSize, hdr.nRasterXSize, hdr.nRasterYSize,
                           threads[t].x, 0,
                           BlockData(1, bands[1].nBlockXSize, typeSizeOf(hdr.m_eType)))
       IN  /\ file' = w.file
           /\ m_fp' = w.pos
           /\ m_tileOffsets' = w.tiles
    /\ m_mutex' = LockGuardEnd(m_mutex)
    /\ threads' = [threads EXCEPT ![t].pc = IF threads[t].pc = "wr_body" THEN "idle"
                                            ELSE "cl_footer"]
    /\ lastOp' = [NoOp EXCEPT !.op = "IWriteBlock", !.x = t, !.lk = TRUE,
                              !.n = IF threads[t].waited THEN 1 ELSE 0]
    /\ UNCHANGED <<alive, eAccess, hdr, bands, submitted, ratLog, nOps>>

\* the rest of IReadBlock and its return
ThreadRead(t) ==
    /\ threads[t].pc = "rd_body"
    /\ LET bsz == bands[1].nBlockXSize
           r == ReadBlock(file, m_tileOffsets, 0, bands[1].nBand, hdr.m_eType, bsz,
                          hdr.nRasterXSize, hdr.nRasterYSize, threads[t].x, 0,
                          Fill(bsz * bsz * typeSizeOf(hdr.m_eType), 0), 0)
       IN  /\ m_fp' = r.pos
           /\ m_tileOffsets' = r.tiles
           /\ lastOp' = [NoOp EXCEPT !.op = "IReadBlock", !.x = t, !.lk = TRUE,
                                     !.out = r.out,
                                     !.n = IF threads[t].waited THEN 1 ELSE 0]
    /\ m_mutex' = LockGuardEnd(m_mutex)
    /\ threads' = [threads EXCEPT ![t].pc = "idle"]
    /\ UNCHANGED <<file, alive, eAccess, hdr, bands, submitted, ratLog, nOps>>

\* Close as far as its flushes: nothing to do for a dataset that is read or
\* is closed; else FlushCache, which calls IWriteBlock when the block cache
\* holds a block that was not written (dirty), with no lock held by Close
ThreadFlush(t, dirty) ==
    /\ threads[t].pc = "cl_flush"
    /\ IF ~(eAccess = GA_Update /\ m_fp # NULL)
       THEN /\ threads' = [threads EXCEPT ![t].pc = "idle"]
            /\ lastOp' = [NoOp EXCEPT !.op = "Close", !.x = t, !.lk = (m_mutex = t)]
       ELSE /\ threads' = [threads EXCEPT ![t].pc = IF dirty THEN "cl_lock" ELSE "cl_footer",
                                          ![t].waited = (m_mutex = t)]
            /\ UNCHANGED lastOp
    /\ UNCHANGED <<file, alive, m_fp, eAccess, hdr, bands, m_tileOffsets, submitted,
                   ratLog, nOps, m_mutex>>

\* the rest of Close: the footer is written and the file closed
ThreadFooter(t) ==
    /\ threads[t].pc = "cl_footer"
    /\ LET r == CloseResult(eAccess, file, m_fp, hdr, bands, m_tileOffsets, CE_None)
       IN  /\ file' = r.file
           /\ m_fp' = r.fp
           /\ bands' = r.bands
           /\ lastOp' = [NoOp EXCEPT !.op = "Close", !.x = t, !.err = r.err,
                                     !.lk = (m_mutex = t),
                                     !.n = IF r.sealed THEN 1 ELSE 0]
    /\ threads' = [threads EXCEPT ![t].pc = "idle"]
    /\ UNCHANGED <<alive, eAccess, hdr, m_tileOffsets, submitted, ratLog, nOps, m_mutex>>

\* a statement of the call thread t is in, other than a lock_guard
ThreadStep(t) ==
    \/ ThreadAccess(t)
    \/ ThreadBlockSize(t)
    \/ ThreadWrite(t)
    \/ ThreadRead(t)
    \/ \E dirty \in BOOLEAN : ThreadFlush(t, dirty)
    \/ ThreadFooter(t)
    \/ ThreadType(t)
    \/ ThreadClamp(t)
    \/ ThreadChunks(t, TRUE)
    \/ ThreadRatUnlock(t)

\* where a thread is when it is at one of these statements: each of them can
\* be run whenever a thread is at it, and running it takes the thread on
Statements ==
    {"rd_access", "wr_size", "wr_body", "cl_write", "rd_body", "cl_flush", "cl_footer",
     "rat_type", "rat_clamp", "rat_chunks", "rat_unlock"}

\* a lock_guard is constructed
ThreadLocks(t) == ThreadAcquire(t) \/ ThreadRatLock(t)

NextCalls ==
    \/ Create(1, GDT_Byte)
    \/ \E eFieldType \in {GFT_Real, GFT_String} :
           /\ Quiet /\ alive /\ bands[1].m_rat.m_cols = <<>>
           /\ CreateColumn(1, eFieldType)
    \/ Quiet /\ SetRowCount(1, MaxRows)
    \/ \E t \in Threads, x \in {0, DFLT_TILESIZE} : CallIWriteBlock(t, x)
    \/ \E t \in Threads : CallIReadBlock(t, 0)
    \/ \E t \in Threads, eRWFlag \in {GF_Read, GF_Write} :
           NoClose /\ nOps < MaxCalls /\ ThreadValuesIO(t, 0, eRWFlag)
    \/ \E t \in Threads : CallClose(t)
    \/ \E t \in Threads : ThreadStep(t)
    \/ \E t \in Threads : ThreadLocks(t)
    \/ Quiet /\ Destroy(CE_None)
    \/ Open(GA_ReadOnly, Fill(4, 0), 0)

SpecCalls == Init /\ [][NextCalls]_vars

\* the scheduler is fair: a thread that can have the mutex it waits for, or
\* can run its next statement, does not stay where it is for ever.  A caller
\* need not make any call.  For a statement other than a lock_guard, weak
\* fairness of its step is that the thread is elsewhere again and again.
FairCalls ==
    \A t \in Threads :
        /\ WF_vars(ThreadLocks(t))
        /\ \A p \in Statements : []<>(threads[t].pc # p)

SpecFairCalls == SpecCalls /\ FairCalls

\* thread t waits at a lock_guard
Waiting(t) == AtLockGuard(t) \/ threads[t].pc = "rat_lock"

\* C40: a call of IReadBlock, IWriteBlock or ValuesIO that has returned, by
\* whatever path, does not hold the mutex, and no thread comes to a
\* lock_guard holding it (the Integer/Real conversion has delegated before,
\* and Close flushes without it); so when the scheduler is fair every thread
\* that waits for the mutex gets it and every call returns
C40_MutexReleased ==
    /\ [](\A t \in Threads :
             /\ threads[t].pc = "idle" => m_mutex # t
             /\ Waiting(t) => m_mutex # t)
    /\ \A t \in Threads : Waiting(t) ~> (m_mutex = t)
    /\ \A t \in Threads : (threads[t].pc # "idle") ~> (threads[t].pc = "idle")

\* C40 witness: a thread has returned from an IWriteBlock for which it had to
\* wait at the lock_guard while another thread was in ValuesIO with the
\* mutex, and the mutex is free
C40_Witness ==
    /\ lastOp.op = "IWriteBlock" /\ lastOp.n = 1 /\ lastOp.err = CE_None
    /\ threads[lastOp.x].pc = "idle"
    /\ m_mutex = NULL
    /\ \E u \in Threads : u # lastOp.x /\ threads[u].pc = "idle"
    /\ \E c \in 1..Len(bands[1].m_rat.m_cols) : bands[1].m_rat.m_cols[c].chunks # <<>>

====
